---- MODULE Spec2Model ----
(***************************************************************************)
(* A model of aipair: the line mapper (src/src/line_mapper.rs), the review *)
(* store (src/src/review.rs), the review and merge endpoints               *)
(* (src/src/api.rs) and the session operations (src/src/session.rs).       *)
(*                                                                         *)
(* The specifications share the variables:                                 *)
(*   SpecMap          map_line applied to hunk lists of one file's diff    *)
(*   SpecExtract      extract_nearby_hunks applied to one file's diff text *)
(*   SpecThreads      map_all_threads over the diffs jj answers with       *)
(*   Spec             the review store under the HTTP handlers             *)
(*   SpecMerge        the single-change merge gate                         *)
(*   SpecRevisions    the review store with record_revision and documents  *)
(*                    older than working_commit_id                         *)
(*   SpecSession      the session store and the two session merges         *)
(*   SpecSessionRace  the same with push running in its steps              *)
(*   SpecSessionGate  one session whose change is under review             *)
(*   SpecSave         push with the session file written in two steps      *)
(*   SpecHandlers     reply handlers of several connections                *)
(*   SpecFault        the merge endpoints over a failing jj or store       *)
(*   SpecClone        the work in a clone and pushed_clean of GET /changes *)
(*   SpecTopics       the topic store under the MCP topic tools            *)
(*   SpecStore        ReviewStore::record_revision called directly         *)
(*   SpecPrefix       get_by_prefix, also before the store is initialised  *)
(*   SpecPush         push in its steps beside work in the clone           *)
(*   SpecTodos        the todo tree under the /api/todos handlers          *)
(***************************************************************************)
EXTENDS Integers, Sequences, FiniteSets, TLC

VARIABLES
    \* ---- line mapper ----
    hunks,        \* the hunks parsed for one file, in diff order (SpecExtract:
                  \* the lines of the file's diff as text)
    old_line,     \* the old-file line handed to map_line
    mapping,      \* map_line's LineMapping, or NoMapping before the call
    batch,        \* the map_all_threads call under way or returned, or NoBatch
    \* ---- DVCS (trunk repository) ----
    commit_of,    \* change_id -> its current commit_id
    descr,        \* change_id -> its description
    bookmarks,    \* bookmark name -> change_id, for the bookmarks there are
    \* ---- review store ----
    reviews,      \* change_id -> persisted Review document, for the files there are
    store_dir,    \* whether the reviews directory exists
    \* ---- session store ----
    sessions,     \* session name -> persisted Session document, likewise
    clones,       \* session name -> the changes of its clone's stack, @ last
    pushing,      \* session name -> the push running in its clone, if one is
    \* ---- the request handlers ----
    handling,     \* request -> the review its handler loaded, saved or not yet
    \* ---- topic store ----
    topics,       \* topic id -> persisted Topic document, for the files there are
    \* ---- todo store ----
    todos,        \* the persisted TodoTree (.aipair/todos.json)
    \* ---- the last request and its response ----
    last

mapVars     == <<hunks, old_line, mapping, batch>>
dvcsVars    == <<commit_of, descr, bookmarks>>
storeVars   == <<reviews, store_dir>>
sessionVars == <<sessions, clones, pushing, handling, topics, todos>>
vars        == <<mapVars, dvcsVars, storeVars, sessionVars, last>>

(***************************************************************************)
(*                            LINE MAPPER                                  *)
(***************************************************************************)

\* enum HunkLine
HunkLine == {"Context", "Add", "Delete"}

\* Option<usize>::None for last_surviving / last_before
NoLine == -1

\* ---- bounds of the mapper's inputs ----
MaxTags == 3      \* hunk lines in the whole diff of the file
MaxLine == 6      \* largest old line mapped

\* new_start values of a hunk header (0 is what `+0,0` gives)
NewStarts == {0, 2}
\* old_start of the first hunk; 0 only with an empty old range (`-0,0`)
FirstOldStarts == {0, 2}
\* old lines between one hunk's old range and the next hunk's old_start
Gaps == {0, 1}
\* old lines the header counts beyond the tags parsed (a truncated hunk body,
\* parse_file_hunks pushes only the lines it sees)
Shorts == {0, 1}

TagSeqs(n) == UNION {[1..k -> HunkLine] : k \in 0..n}

RECURSIVE CountTags(_, _)
CountTags(lines, kinds) ==
    IF lines = <<>> THEN 0
    ELSE (IF Head(lines) \in kinds THEN 1 ELSE 0) + CountTags(Tail(lines), kinds)

OldLen(lines) == CountTags(lines, {"Context", "Delete"})
NewLen(lines) == CountTags(lines, {"Context", "Add"})

\* struct Hunk, as parse_hunk_header and the line pushes of parse_file_hunks fill it
Hunk(os, short, ns, lines) ==
    [old_start |-> os, old_count |-> OldLen(lines) + short,
     new_start |-> ns, new_count |-> NewLen(lines), lines |-> lines]

\* One file's hunks as a unified diff lists them: ascending, old ranges disjoint,
\* a start of 0 only for an empty side (`-0,0`, `+0,0`).
WellStarted(h) ==
    /\ h.old_start >= 1 \/ h.old_count = 0
    /\ h.new_start >= 1 \/ h.new_count = 0

FirstHunks(n) ==
    {h \in {Hunk(os, s, ns, t) : os \in FirstOldStarts, s \in Shorts,
                                 ns \in NewStarts, t \in TagSeqs(n)} :
        WellStarted(h)}

NextHunks(h1, n) ==
    {h \in {Hunk(h1.old_start + h1.old_count + g, s, ns, t) :
                g \in Gaps, s \in Shorts, ns \in NewStarts, t \in TagSeqs(n)} :
        WellStarted(h)}

HunkLists ==
    {<<>>}
    \cup {<<h>> : h \in FirstHunks(MaxTags)}
    \cup UNION {{<<h1, h2>> : h2 \in NextHunks(h1, MaxTags - Len(h1.lines))} :
                   h1 \in FirstHunks(MaxTags)}

LineMapping(n, d) == [new_line |-> n, was_deleted |-> d]
NoMapping == [new_line |-> NoLine, was_deleted |-> FALSE]

\* a variant of NearestFrom: an Add entry after the deletion is not taken as surviving.
RECURSIVE NearestFromSkipAdd(_, _, _, _, _, _, _)
NearestFromSkipAdd(hunk, deleted_old_line, i, old_pos, new_pos, last_before, reached_target) ==
    IF i > Len(hunk.lines)
    THEN IF last_before # NoLine THEN last_before
         ELSE IF hunk.new_start > 1 THEN hunk.new_start ELSE 1
    ELSE CASE hunk.lines[i] = "Context" ->
                IF reached_target THEN new_pos
                ELSE NearestFromSkipAdd(hunk, deleted_old_line, i + 1, old_pos + 1,
                                        new_pos + 1, new_pos, reached_target)
           [] hunk.lines[i] = "Delete" ->
                NearestFromSkipAdd(hunk, deleted_old_line, i + 1, old_pos + 1, new_pos,
                                   last_before,
                                   reached_target \/ old_pos = deleted_old_line)
           [] hunk.lines[i] = "Add" ->
                NearestFromSkipAdd(hunk, deleted_old_line, i + 1, old_pos,
                                   new_pos + 1, last_before, reached_target)

\* fn find_nearest_surviving: the loop over hunk.lines from entry i on
RECURSIVE NearestFrom(_, _, _, _, _, _, _)
NearestFrom(hunk, deleted_old_line, i, old_pos, new_pos, last_before, reached_target) ==
    IF i > Len(hunk.lines)
    THEN IF last_before # NoLine THEN last_before
         ELSE IF hunk.new_start > 1 THEN hunk.new_start ELSE 1
    ELSE CASE hunk.lines[i] = "Context" ->
                IF reached_target THEN new_pos
                ELSE NearestFrom(hunk, deleted_old_line, i + 1, old_pos + 1,
                                 new_pos + 1, new_pos, reached_target)
           [] hunk.lines[i] = "Delete" ->
                NearestFrom(hunk, deleted_old_line, i + 1, old_pos + 1, new_pos,
                            last_before,
                            reached_target \/ old_pos = deleted_old_line)
           [] hunk.lines[i] = "Add" ->
                IF reached_target THEN new_pos
                ELSE NearestFrom(hunk, deleted_old_line, i + 1, old_pos,
                                 new_pos + 1, last_before, reached_target)

\* a variant of find_nearest_surviving that falls back to new_start as it is
find_nearest_surviving_unclamped(hunk, deleted_old_line) ==
    IF \A j \in 1..Len(hunk.lines) : hunk.lines[j] = "Delete"
    THEN hunk.new_start
    ELSE NearestFrom(hunk, deleted_old_line, 1, hunk.old_start, hunk.new_start,
                     NoLine, FALSE)
find_nearest_surviving(hunk, deleted_old_line) ==
    NearestFrom(hunk, deleted_old_line, 1, hunk.old_start, hunk.new_start,
                NoLine, FALSE)

\* a variant of WalkHunk: an Add entry does not advance new_pos.
RECURSIVE WalkHunkAddStill(_, _, _, _, _, _)
WalkHunkAddStill(hunk, line, i, old_pos, new_pos, last_surviving) ==
    IF i > Len(hunk.lines)
    THEN LineMapping(IF last_surviving # NoLine THEN last_surviving
                     ELSE hunk.new_start, TRUE)
    ELSE CASE hunk.lines[i] = "Context" ->
                IF old_pos = line THEN LineMapping(new_pos, FALSE)
                ELSE WalkHunkAddStill(hunk, line, i + 1, old_pos + 1, new_pos + 1, new_pos)
           [] hunk.lines[i] = "Delete" ->
                IF old_pos = line
                THEN LineMapping(find_nearest_surviving(hunk, line), TRUE)
                ELSE WalkHunkAddStill(hunk, line, i + 1, old_pos + 1, new_pos,
                                      last_surviving)
           [] hunk.lines[i] = "Add" ->
                WalkHunkAddStill(hunk, line, i + 1, old_pos, new_pos, last_surviving)

\* map_line, "Line is inside this hunk": the loop over hunk.lines from entry i on
RECURSIVE WalkHunk(_, _, _, _, _, _)
WalkHunk(hunk, line, i, old_pos, new_pos, last_surviving) ==
    IF i > Len(hunk.lines)
    THEN LineMapping(IF last_surviving # NoLine THEN last_surviving
                     ELSE hunk.new_start, TRUE)
    ELSE CASE hunk.lines[i] = "Context" ->
                IF old_pos = line THEN LineMapping(new_pos, FALSE)
                ELSE WalkHunk(hunk, line, i + 1, old_pos + 1, new_pos + 1, new_pos)
           [] hunk.lines[i] = "Delete" ->
                IF old_pos = line
                THEN LineMapping(find_nearest_surviving(hunk, line), TRUE)
                ELSE WalkHunk(hunk, line, i + 1, old_pos + 1, new_pos, last_surviving)
           [] hunk.lines[i] = "Add" ->
                WalkHunk(hunk, line, i + 1, old_pos, new_pos + 1, last_surviving)

\* a variant of MapFrom: a line before a later hunk is returned without the offset
\* accumulated from the hunks before it.
RECURSIVE MapFromNoOffset(_, _, _, _)
MapFromNoOffset(line, hs, k, offset) ==
    IF k > Len(hs) THEN LineMapping(line + offset, FALSE)
    ELSE LET hunk == hs[k]
             hunk_old_end == hunk.old_start + hunk.old_count
         IN  IF line < hunk.old_start THEN LineMapping(line, FALSE)
             ELSE IF line < hunk_old_end
                  THEN WalkHunk(hunk, line, 1, hunk.old_start, hunk.new_start, NoLine)
                  ELSE MapFromNoOffset(line, hs, k + 1,
                                       offset + hunk.new_count - hunk.old_count)

\* map_line: the loop over hunks from hunk k on, with the offset accumulated so far.
\* (old_line as isize + offset) as usize: on the hunk lists above the sum is >= 1
\* (CastIsIdentity checks it), so the cast is the identity.
RECURSIVE MapFrom(_, _, _, _)
MapFrom(line, hs, k, offset) ==
    IF k > Len(hs) THEN LineMapping(line + offset, FALSE)
    ELSE LET hunk == hs[k]
             hunk_old_end == hunk.old_start + hunk.old_count
         IN  IF line < hunk.old_start THEN LineMapping(line + offset, FALSE)
             ELSE IF line < hunk_old_end
                  THEN WalkHunk(hunk, line, 1, hunk.old_start, hunk.new_start, NoLine)
                  ELSE MapFrom(line, hs, k + 1,
                               offset + hunk.new_count - hunk.old_count)

map_line(line, hs) == MapFrom(line, hs, 1, 0)

(***************************************************************************)
(*                     DVCS, REVIEW STORE, REVIEW API                      *)
(***************************************************************************)

\* change ids, thread ids and names are character sequences, so that prefixes
\* (starts_with) can be taken
\* the changes under work, the change the trunk bookmark starts at, and a
\* change_id the DVCS does not know
ChangeIds == {<<"k", "a">>, <<"k", "b">>}
TrunkChange == <<"t", "0">>
Changes == ChangeIds \cup {TrunkChange}
UnknownChange == <<"z", "z">>
\* the first 8 hex digits of a v4 UUID
ThreadIds == {<<"a", "1">>, <<"a", "2">>}
\* commit hashes a change can be at; an amend or an undo moves it to another one
CommitIds == {"h1", "h2"}
\* descriptions as jj stores them: empty, whitespace only, text
Descriptions == {<<>>, <<" ">>, <<"h", "i">>}
Whitespace == {" "}
Files == {"f.rs"}
LineRanges == {<<1, 1>>, <<2, 3>>}
Author == {"User", "Claude"}
Bases == {"@-"}
MainBookmark == <<"main">>

\* ---- bounds of the review store ----
MaxComments == 3     \* comments of one review
MaxRevisions == 2    \* persisted revisions of one review

\* Option values
None == <<>>
Some(x) == <<x>>
Unwrap(o) == o[1]

\* str::trim_end and str::trim
RECURSIVE trim_end(_)
trim_end(str) ==
    IF str # <<>> /\ str[Len(str)] \in Whitespace
    THEN trim_end(SubSeq(str, 1, Len(str) - 1)) ELSE str
RECURSIVE trim_start(_)
trim_start(str) ==
    IF str # <<>> /\ Head(str) \in Whitespace THEN trim_start(Tail(str)) ELSE str
trim(str) == trim_end(trim_start(str))

starts_with(str, prefix) ==
    Len(prefix) <= Len(str) /\ SubSeq(str, 1, Len(prefix)) = prefix

\* smallest element of a non-empty set of indices (the first match of a scan)
First(I) == CHOOSE i \in I : \A j \in I : i <= j

\* ---- jj ----
\* Jj::get_change: the change as the DVCS reports it (description trim_end-ed)
get_change(c) ==
    [change_id |-> c, commit_id |-> commit_of[c], description |-> trim_end(descr[c])]

\* Jj::get_bookmark
get_bookmark(name) ==
    IF name \in DOMAIN bookmarks THEN Some(bookmarks[name]) ELSE None

\* Jj::move_bookmark (jj bookmark set name -r change)
move_bookmark(bm, name, change) ==
    [n \in DOMAIN bm \cup {name} |-> IF n = name THEN change ELSE bm[n]]

\* ---- review.rs data ----
Revision(number, commit_id, description, is_pending) ==
    [number |-> number, commit_id |-> commit_id, description |-> description,
     is_pending |-> is_pending]

Comment(author, text) == [author |-> author, text |-> text]

Thread(id, file, ls, le, comments, commit_id, revision) ==
    [id |-> id, file |-> file, line_start |-> ls, line_end |-> le,
     status |-> "Open", comments |-> comments,
     created_at_commit |-> Some(commit_id), created_at_revision |-> revision]

Review(base, commit_id) ==
    [base |-> base, threads |-> <<>>, revisions |-> <<>>,
     working_commit_id |-> Some(commit_id)]

\* ReviewStore::get
store_get(c) == IF c \in DOMAIN reviews THEN Some(reviews[c]) ELSE None

\* ReviewStore::save
store_save(rs, c, review) ==
    [x \in DOMAIN rs \cup {c} |-> IF x = c THEN review ELSE rs[x]]

\* ReviewStore::get_or_create: the review returned and the store after the call
\* a variant of get_or_create that brings working_commit_id up to date on
\* every call
get_or_create_refresh(c, base, commit_id) ==
    IF c \in DOMAIN reviews
    THEN LET review == [reviews[c] EXCEPT !.working_commit_id = Some(commit_id)]
         IN  [review |-> review, store |-> store_save(reviews, c, review)]
    ELSE LET review == Review(base, commit_id)
         IN  [review |-> review, store |-> store_save(reviews, c, review)]

get_or_create(c, base, commit_id) ==
    IF c \in DOMAIN reviews
    THEN IF reviews[c].working_commit_id = None
         THEN LET review == [reviews[c] EXCEPT !.working_commit_id = Some(commit_id)]
              IN  [review |-> review, store |-> store_save(reviews, c, review)]
         ELSE [review |-> reviews[c], store |-> reviews]
    ELSE LET review == Review(base, commit_id)
         IN  [review |-> review, store |-> store_save(reviews, c, review)]

\* a variant of record_revision that numbers revisions from zero
record_revision_zero_based(review, commit_id, description) ==
    [review EXCEPT
        !.revisions = Append(@, Revision(Len(@), commit_id, description, FALSE)),
        !.working_commit_id = Some(commit_id)]

\* ReviewStore::record_revision on a review that exists
record_revision(review, commit_id, description) ==
    [review EXCEPT
        !.revisions = Append(@, Revision(Len(@) + 1, commit_id, description, FALSE)),
        !.working_commit_id = Some(commit_id)]

\* ReviewStore::add_comment, "Auto-create revision if commit differs from last
\* revision (or no revisions yet)"
\* a variant of auto_revision that appends a revision whatever the last one is
auto_revision_always(review, commit_id) ==
    [review EXCEPT !.revisions = Append(@, Revision(Len(@) + 1, commit_id, None, FALSE)),
                   !.working_commit_id = Some(commit_id)]
auto_revision(review, commit_id) ==
    LET last_revision_commit ==
            IF review.revisions = <<>> THEN None
            ELSE Some(review.revisions[Len(review.revisions)].commit_id)
        with_rev ==
            IF last_revision_commit # Some(commit_id)
            THEN [review EXCEPT !.revisions =
                      Append(@, Revision(Len(@) + 1, commit_id, None, FALSE))]
            ELSE review
    IN  [with_rev EXCEPT !.working_commit_id = Some(commit_id)]

\* ReviewStore::add_comment, "Find existing thread or create new one": the thread
\* is found by (file, line_start, line_end), then fetched again by its id
place_comment(review, file, ls, le, author, text, commit_id, new_id) ==
    LET same_key == {i \in 1..Len(review.threads) :
                        /\ review.threads[i].file = file
                        /\ review.threads[i].line_start = ls
                        /\ review.threads[i].line_end = le}
        current_revision ==
            IF review.revisions = <<>> THEN None
            ELSE Some(review.revisions[Len(review.revisions)].number)
    IN  IF same_key # {}
        THEN LET id == review.threads[First(same_key)].id
                 j == First({i \in 1..Len(review.threads) : review.threads[i].id = id})
             IN  [review |-> [review EXCEPT !.threads[j].comments =
                                  Append(@, Comment(author, text))],
                  thread_id |-> id]
        ELSE [review |-> [review EXCEPT !.threads =
                              Append(@, Thread(new_id, file, ls, le,
                                               <<Comment(author, text)>>,
                                               commit_id, current_revision))],
              thread_id |-> new_id]

\* ReviewStore::add_comment on a review that exists; new_id is what Uuid::new_v4
\* yields if a thread has to be created
add_comment(review, file, ls, le, author, text, commit_id, new_id) ==
    place_comment(auto_revision(review, commit_id), file, ls, le, author, text,
                  commit_id, new_id)

\* ReviewStore::find_thread_mut: the index of the thread, 0 for an error
find_thread_mut(threads, thread_id_prefix) ==
    LET exact == {i \in 1..Len(threads) : threads[i].id = thread_id_prefix}
        matches == {i \in 1..Len(threads) : starts_with(threads[i].id, thread_id_prefix)}
    IN  IF exact # {} THEN First(exact)
        ELSE IF Cardinality(matches) = 1 THEN First(matches)
        ELSE 0

\* ReviewStore::get_by_prefix: the change_id of the review found; None when no
\* file matches; "ambiguous" is reported apart
prefix_matches(prefix) == {c \in DOMAIN reviews : starts_with(c, prefix)}
get_by_prefix(prefix) ==
    IF prefix \in DOMAIN reviews THEN Some(prefix)
    ELSE IF Cardinality(prefix_matches(prefix)) = 1
         THEN Some(CHOOSE c \in prefix_matches(prefix) : TRUE)
         ELSE None
get_by_prefix_ambiguous(prefix) ==
    /\ prefix \notin DOMAIN reviews /\ store_dir
    /\ Cardinality(prefix_matches(prefix)) >= 2
\* read_dir of a reviews directory that is not there: an io error
get_by_prefix_fails(prefix) == prefix \notin DOMAIN reviews /\ ~store_dir

\* a variant that puts the synthetic revision in front of the recorded ones
add_pending_revision_first(review, current_commit_id) ==
    LET has_pending ==
            IF review.revisions = <<>> THEN TRUE
            ELSE review.revisions[Len(review.revisions)].commit_id # current_commit_id
    IN  IF has_pending
        THEN [review EXCEPT !.revisions =
                  <<Revision(1, current_commit_id, None, TRUE)>> \o @]
        ELSE review

\* api.rs add_pending_revision_if_needed
add_pending_revision_if_needed(review, current_commit_id) ==
    LET has_pending ==
            IF review.revisions = <<>> THEN TRUE
            ELSE review.revisions[Len(review.revisions)].commit_id # current_commit_id
        next_number ==
            IF review.revisions = <<>> THEN 1
            ELSE review.revisions[Len(review.revisions)].number + 1
    IN  IF has_pending
        THEN [review EXCEPT !.revisions =
                  Append(@, Revision(next_number, current_commit_id, None, TRUE))]
        ELSE review

\* ---- the last request and what it answered ----
\* success: "true" / "false" of a MergeResponse body, "none" for any other body
Resp(op, id, force, status, success, review, thread_id) ==
    [op |-> op, id |-> id, force |-> force, status |-> status,
     success |-> success, review |-> review, thread_id |-> thread_id]

NoRequest == Resp("none", <<>>, FALSE, 0, "none", None, None)

\* HTTP status codes (axum StatusCode)
OK == 200
BAD_REQUEST == 400
INTERNAL_SERVER_ERROR == 500
NOT_FOUND == 404

\* ---- initial states of the components ----
InitDvcs ==
    /\ commit_of = [c \in Changes |-> "h1"]
    /\ descr = [c \in Changes |-> IF c = TrunkChange THEN <<"h", "i">> ELSE <<>>]
    /\ bookmarks = [n \in {MainBookmark} |-> TrunkChange]

\* serve runs ReviewStore::init before it takes a request
InitStore == reviews = <<>> /\ store_dir = TRUE
\* TodoTree::default, what TodoStore::load answers before the first save
EmptyTree == [root_ids |-> <<>>, items |-> <<>>]

InitSessions == sessions = <<>> /\ clones = <<>> /\ pushing = <<>> /\ handling = <<>>
                /\ topics = <<>> /\ todos = EmptyTree
IdleMap == hunks = <<>> /\ old_line = 1 /\ mapping = NoMapping /\ batch = <<>>

\* ---- the DVCS moving under the review system ----
\* the author amends change c (or undoes an amend): another commit_id
Amend(c) ==
    /\ \E h \in CommitIds \ {commit_of[c]} :
          commit_of' = [commit_of EXCEPT ![c] = h]
    /\ last' = Resp("amend", c, FALSE, 0, "none", None, None)
    /\ UNCHANGED <<mapVars, descr, bookmarks, storeVars, sessionVars>>

\* jj describe on change c
Describe(c, d) ==
    /\ descr[c] # d
    /\ descr' = [descr EXCEPT ![c] = d]
    /\ last' = Resp("describe", c, FALSE, 0, "none", None, None)
    /\ UNCHANGED <<mapVars, commit_of, bookmarks, storeVars, sessionVars>>

\* ---- api.rs handlers ----
\* within the bounds of the model: comments and revisions of one review
RECURSIVE CountComments(_)
CountComments(threads) ==
    IF threads = <<>> THEN 0
    ELSE Len(threads[1].comments) + CountComments(Tail(threads))

InBounds(review) ==
    /\ Len(review.revisions) <= MaxRevisions
    /\ CountComments(review.threads) <= MaxComments

\* POST /changes/{id}/review
CreateReview(c, base) ==
    LET current_commit_id == get_change(c).commit_id
        got == get_or_create(c, base, current_commit_id)
    IN  /\ reviews' = got.store
        /\ store_dir' = TRUE
        /\ last' = Resp("create_review", c, FALSE, OK, "none",
                        Some(add_pending_revision_if_needed(got.review, current_commit_id)),
                        None)
        /\ UNCHANGED <<mapVars, dvcsVars, sessionVars>>

\* GET /changes/{id}/review
GetReview(c) ==
    LET current_commit_id == get_change(c).commit_id
    IN  /\ last' = Resp("get_review", c, FALSE, OK, "none",
                        IF store_get(c) = None THEN None
                        ELSE Some(add_pending_revision_if_needed(Unwrap(store_get(c)),
                                                                 current_commit_id)),
                        None)
        /\ UNCHANGED <<mapVars, dvcsVars, storeVars, sessionVars>>

\* POST /changes/{id}/comments; the change is among the 100 that jj.log lists
\* (a repository of two changes), so the handler finds its commit_id
AddComment(c, file, range, new_id) ==
    LET commit_id == get_change(c).commit_id
    IN  IF store_get(c) = None
        THEN /\ last' = Resp("add_comment", c, FALSE, INTERNAL_SERVER_ERROR, "none",
                             None, None)
             /\ UNCHANGED <<mapVars, dvcsVars, storeVars, sessionVars>>
        ELSE LET done == add_comment(reviews[c], file, range[1], range[2], "User",
                                     "text", commit_id, new_id)
             IN  /\ InBounds(done.review)
                 /\ reviews' = store_save(reviews, c, done.review)
                 /\ store_dir' = TRUE
                 /\ last' = Resp("add_comment", c, FALSE, OK, "none",
                                 Some(done.review), Some(done.thread_id))
                 /\ UNCHANGED <<mapVars, dvcsVars, sessionVars>>

\* mcp.rs record_revision, "Check if there are actual changes since the last
\* revision": the review's last revision is at this commit
\* a variant that never finds the last revision at the commit
no_changes_never(c, commit_id) == FALSE
no_changes_since_last(c, commit_id) ==
    /\ store_get(c) # None
    /\ reviews[c].revisions # <<>>
    /\ reviews[c].revisions[Len(reviews[c].revisions)].commit_id = commit_id

\* mcp.rs record_revision, asked with the full change_id of a change in the log:
\* refused when the last revision is already at the change's commit, and when
\* there is no review to record it in
RecordRevision(c) ==
    LET change == get_change(c)
        unchanged == no_changes_since_last(c, change.commit_id)
    IN  IF unchanged \/ store_get(c) = None
        THEN /\ last' = Resp("record_revision", c, FALSE, 0, "false", None, None)
             /\ UNCHANGED <<mapVars, dvcsVars, storeVars, sessionVars>>
        ELSE LET review == record_revision(reviews[c], change.commit_id,
                                           Some("summary"))
             IN  /\ InBounds(review)
                 /\ reviews' = store_save(reviews, c, review)
                 /\ store_dir' = TRUE
                 /\ last' = Resp("record_revision", c, FALSE, 0, "true", None, None)
                 /\ UNCHANGED <<mapVars, dvcsVars, sessionVars>>

\* ReviewStore::reply_to_thread / resolve_thread / reopen_thread share their
\* lookup: the change found and the thread's index, or an error
Lookup(change_prefix, thread_prefix) ==
    IF \/ get_by_prefix_fails(change_prefix)
       \/ get_by_prefix_ambiguous(change_prefix)
       \/ get_by_prefix(change_prefix) = None
    THEN [ok |-> FALSE, c |-> <<>>, i |-> 0]
    ELSE LET c == Unwrap(get_by_prefix(change_prefix))
             i == find_thread_mut(reviews[c].threads, thread_prefix)
         IN  [ok |-> i # 0, c |-> c, i |-> i]

\* the three thread mutations applied to thread i of a review
\* a variant of reply_to_thread that keeps the new comment only
reply_to_thread_replacing(review, i, author, text) ==
    [review EXCEPT !.threads[i].comments = <<Comment(author, text)>>]
reply_to_thread(review, i, author, text) ==
    [review EXCEPT !.threads[i].comments = Append(@, Comment(author, text))]
\* a variant of resolve_thread that flips the status
resolve_thread_toggle(review, i) ==
    [review EXCEPT !.threads[i].status = IF @ = "Open" THEN "Resolved" ELSE "Open"]
resolve_thread(review, i) == [review EXCEPT !.threads[i].status = "Resolved"]
reopen_thread(review, i) == [review EXCEPT !.threads[i].status = "Open"]

\* what the three handlers answer: 500 on a store error, the review otherwise
ThreadError(op) == Resp(op, <<>>, FALSE, INTERNAL_SERVER_ERROR, "none", None, None)
ThreadDone(op, found, review) ==
    Resp(op, found.c, FALSE, OK, "none", Some(review),
         Some(review.threads[found.i].id))

\* POST .../threads/{tid}/reply (author User); aipair respond and the MCP
\* respond tool (author Claude)
Reply(change_prefix, thread_prefix, author) ==
    LET found == Lookup(change_prefix, thread_prefix)
    IN  IF ~found.ok
        THEN /\ last' = ThreadError("reply")
             /\ UNCHANGED <<mapVars, dvcsVars, storeVars, sessionVars>>
        ELSE LET review == reply_to_thread(reviews[found.c], found.i, author, "text")
             IN  /\ InBounds(review)
                 /\ reviews' = store_save(reviews, found.c, review)
                 /\ store_dir' = TRUE
                 /\ last' = ThreadDone("reply", found, review)
                 /\ UNCHANGED <<mapVars, dvcsVars, sessionVars>>

\* POST .../threads/{tid}/resolve
Resolve(change_prefix, thread_prefix) ==
    LET found == Lookup(change_prefix, thread_prefix)
    IN  IF ~found.ok
        THEN /\ last' = ThreadError("resolve")
             /\ UNCHANGED <<mapVars, dvcsVars, storeVars, sessionVars>>
        ELSE LET review == resolve_thread(reviews[found.c], found.i)
             IN  /\ reviews' = store_save(reviews, found.c, review)
                 /\ store_dir' = TRUE
                 /\ last' = ThreadDone("resolve", found, review)
                 /\ UNCHANGED <<mapVars, dvcsVars, sessionVars>>

\* POST .../threads/{tid}/reopen
Reopen(change_prefix, thread_prefix) ==
    LET found == Lookup(change_prefix, thread_prefix)
    IN  IF ~found.ok
        THEN /\ last' = ThreadError("reopen")
             /\ UNCHANGED <<mapVars, dvcsVars, storeVars, sessionVars>>
        ELSE LET review == reopen_thread(reviews[found.c], found.i)
             IN  /\ reviews' = store_save(reviews, found.c, review)
                 /\ store_dir' = TRUE
                 /\ last' = ThreadDone("reopen", found, review)
                 /\ UNCHANGED <<mapVars, dvcsVars, sessionVars>>

\* merge_change's gate for force = false: "pending" and "open" as the handler
\* computes them from the stored review
has_pending(c, current_commit_id) ==
    IF store_get(c) = None THEN TRUE
    ELSE IF reviews[c].revisions = <<>> THEN TRUE
    ELSE current_commit_id # reviews[c].revisions[Len(reviews[c].revisions)].commit_id

open_threads(review) ==
    {i \in 1..Len(review.threads) : review.threads[i].status = "Open"}

\* a variant of the gate that does not look at the threads
merge_gate_threads_unchecked(c, force) ==
    LET main_change_id == get_bookmark(MainBookmark)
        change == get_change(c)
    IN  IF main_change_id = Some(c) THEN "at_main"
        ELSE IF c \notin DOMAIN commit_of THEN "no_change"
        ELSE IF ~force /\ trim(change.description) = <<>> THEN "empty"
        ELSE IF ~force /\ has_pending(c, change.commit_id) THEN "pending"
        ELSE "move"

\* a variant of the gate in which force also bypasses the already-at-main check
merge_gate_trunk_forceable(c, force) ==
    LET main_change_id == get_bookmark(MainBookmark)
        change == get_change(c)
    IN  IF ~force /\ main_change_id = Some(c) THEN "at_main"
        ELSE IF c \notin DOMAIN commit_of THEN "no_change"
        ELSE IF ~force /\ trim(change.description) = <<>> THEN "empty"
        ELSE IF ~force /\ has_pending(c, change.commit_id) THEN "pending"
        ELSE IF ~force /\ store_get(c) # None /\ open_threads(reviews[c]) # {}
             THEN "open"
        ELSE "move"

\* the outcome of merge_change: "at_main", "no_change" (get_change failed),
\* "empty", "pending", "open" or "move"
merge_gate(c, force) ==
    LET main_change_id == get_bookmark(MainBookmark)
        change == get_change(c)
    IN  IF main_change_id = Some(c) THEN "at_main"
        ELSE IF c \notin DOMAIN commit_of THEN "no_change"
        ELSE IF ~force /\ trim(change.description) = <<>> THEN "empty"
        ELSE IF ~force /\ has_pending(c, change.commit_id) THEN "pending"
        ELSE IF ~force /\ store_get(c) # None /\ open_threads(reviews[c]) # {}
             THEN "open"
        ELSE "move"

\* POST /changes/{id}/merge
MergeChange(c, force) ==
    LET outcome == merge_gate(c, force)
    IN  /\ bookmarks' = IF outcome = "move"
                        THEN move_bookmark(bookmarks, MainBookmark, c)
                        ELSE bookmarks
        /\ last' = Resp("merge_change", c, force,
                        CASE outcome = "move" -> OK
                          [] outcome = "at_main" -> OK
                          [] outcome = "no_change" -> INTERNAL_SERVER_ERROR
                          [] OTHER -> BAD_REQUEST,
                        IF outcome = "move" THEN "true" ELSE "false", None, None)
        /\ UNCHANGED <<mapVars, commit_of, descr, storeVars, sessionVars>>

\* what a request can name

\* the change under review, what a request can name (full ids and prefixes),
\* and the requests the merge world sends
Reviewed == {<<"k", "a">>}
ChangePrefixes == Reviewed \cup {<<"k">>}
ThreadPrefixes == ThreadIds \cup {<<"a">>}
GateRanges == {<<1, 1>>}
GateThreadIds == {<<"a", "1">>}

(***************************************************************************)
(* Spec: the review store under the HTTP handlers, while the author amends.*)
(***************************************************************************)
Init ==
    /\ IdleMap
    /\ InitDvcs
    /\ InitStore
    /\ InitSessions
    /\ last = NoRequest

Next ==
    \/ \E c \in Reviewed : Amend(c)
    \/ \E c \in ChangeIds, base \in Bases : CreateReview(c, base)
    \/ \E c \in ChangeIds : GetReview(c)
    \/ \E c \in Reviewed, file \in Files, range \in LineRanges, new_id \in ThreadIds :
          AddComment(c, file, range, new_id)
    \/ \E cp \in ChangePrefixes, tp \in ThreadPrefixes, author \in Author :
          Reply(cp, tp, author)
    \/ \E cp \in ChangePrefixes, tp \in ThreadPrefixes : Resolve(cp, tp)
    \/ \E cp \in ChangePrefixes, tp \in ThreadPrefixes : Reopen(cp, tp)

Spec == Init /\ [][Next]_vars

(***************************************************************************)
(* SpecMerge: the merge gate of the trunk repository.                      *)
(***************************************************************************)
NextMerge ==
    \/ \E c \in Reviewed : Amend(c)
    \/ \E c \in Reviewed, d \in Descriptions : Describe(c, d)
    \/ \E c \in Reviewed, base \in Bases : CreateReview(c, base)
    \/ \E c \in Reviewed, file \in Files, range \in GateRanges, new_id \in GateThreadIds :
          AddComment(c, file, range, new_id)
    \/ \E c \in Reviewed, tp \in GateThreadIds : Resolve(c, tp)
    \/ \E c \in Reviewed, tp \in GateThreadIds : Reopen(c, tp)
    \/ \E c \in Reviewed : RecordRevision(c)
    \/ \E c \in Changes \cup {UnknownChange}, force \in BOOLEAN : MergeChange(c, force)

SpecMerge == Init /\ [][NextMerge]_vars

(***************************************************************************)
(* SpecRevisions: the review store with its revisions, recorded by the     *)
(* MCP tool and by comments, over a trunk repository that may hold review  *)
(* documents written before working_commit_id was a field.                 *)
(***************************************************************************)
\* Review.working_commit_id is #[serde(default)]: a document without the field
\* loads with None, and get_or_create migrates it; its revisions, if it has
\* any, are of the commit the change had then
LegacyReviews ==
    {[base |-> "@-", threads |-> <<>>, revisions |-> revisions,
      working_commit_id |-> None] :
        revisions \in {<<>>, <<Revision(1, "h1", None, FALSE)>>}}

InitRevisions ==
    /\ IdleMap
    /\ InitDvcs
    /\ InitSessions
    /\ last = NoRequest
    /\ \/ InitStore
       \/ \E c \in Reviewed, review \in LegacyReviews :
             reviews = store_save(<<>>, c, review) /\ store_dir = TRUE

\* the base revsets a create_review request names
RevisionBases == Bases \cup {"main"}

NextRevisions ==
    \/ \E c \in Reviewed : Amend(c)
    \/ \E c \in Reviewed, base \in RevisionBases : CreateReview(c, base)
    \/ \E c \in Reviewed : GetReview(c)
    \/ \E c \in Reviewed, file \in Files, range \in GateRanges, new_id \in GateThreadIds :
          AddComment(c, file, range, new_id)
    \/ \E c \in Reviewed : RecordRevision(c)
    \/ \E c \in Reviewed, tp \in GateThreadIds, author \in Author : Reply(c, tp, author)
    \/ \E c \in Reviewed, tp \in GateThreadIds : Resolve(c, tp)
    \/ \E c \in Reviewed, tp \in GateThreadIds : Reopen(c, tp)

SpecRevisions == InitRevisions /\ [][NextRevisions]_vars

(***************************************************************************)
(* SpecHandlers: reply requests of several connections. axum::serve runs   *)
(* each connection's handler as a task of the multi-threaded runtime, and  *)
(* AppState holds the ReviewStore without a lock: the load and the save of *)
(* ReviewStore::reply_to_thread are steps other handlers run between.      *)
(***************************************************************************)
Requests == {"r1", "r2", "r3"}

\* reply_to_thread up to find_thread_mut: the handler of request r has the
\* review and the thread in hand
ReplyLoad(r, change_prefix, thread_prefix) ==
    LET found == Lookup(change_prefix, thread_prefix)
    IN  /\ r \notin DOMAIN handling
        /\ found.ok
        /\ handling' = [q \in DOMAIN handling \cup {r} |->
               IF q = r THEN [c |-> found.c, i |-> found.i,
                              review |-> reviews[found.c], saved |-> FALSE]
               ELSE handling[q]]
        /\ last' = Resp("reply_load", found.c, FALSE, OK, "none", None, None)
        /\ UNCHANGED <<mapVars, dvcsVars, storeVars, sessions, clones, pushing, topics, todos>>

\* reply_to_thread from the push of the comment on: the handler's copy gets
\* the comment (its text is the request's), is saved and is answered
ReplySave(r) ==
    /\ r \in DOMAIN handling
    /\ ~handling[r].saved
    /\ LET h == handling[r]
           review == reply_to_thread(h.review, h.i, "User", r)
       IN  /\ InBounds(review)
           /\ reviews' = store_save(reviews, h.c, review)
           /\ store_dir' = TRUE
           /\ last' = Resp("reply", h.c, FALSE, OK, "none", Some(review),
                           Some(review.threads[h.i].id))
    /\ handling' = [handling EXCEPT ![r].saved = TRUE]
    /\ UNCHANGED <<mapVars, dvcsVars, sessions, clones, pushing, topics, todos>>

NextHandlers ==
    \/ \E c \in Reviewed, base \in Bases : CreateReview(c, base)
    \/ \E c \in Reviewed, file \in Files, range \in GateRanges, new_id \in ThreadIds :
          AddComment(c, file, range, new_id)
    \/ \E r \in Requests, c \in Reviewed, tp \in ThreadIds : ReplyLoad(r, c, tp)
    \/ \E r \in Requests : ReplySave(r)

SpecHandlers == Init /\ [][NextHandlers]_vars

(***************************************************************************)
(* SpecStore: the ReviewStore called as its unit tests call it, with the   *)
(* commit_id the caller hands in.                                          *)
(***************************************************************************)
\* what ReviewStore::record_revision returns: Ok((review, number)) or an error
RevisionDone(c, commit_id, ok, number) ==
    [op |-> "store_record_revision", id |-> c, commit_id |-> commit_id,
     success |-> IF ok THEN "true" ELSE "false", number |-> number]

\* ReviewStore::record_revision
StoreRecordRevision(c, commit_id, description) ==
    IF store_get(c) = None
    THEN /\ last' = RevisionDone(c, commit_id, FALSE, 0)
         /\ UNCHANGED <<mapVars, dvcsVars, storeVars, sessionVars>>
    ELSE LET review == record_revision(reviews[c], commit_id, description)
         IN  /\ InBounds(review)
             /\ reviews' = store_save(reviews, c, review)
             /\ store_dir' = TRUE
             /\ last' = RevisionDone(c, commit_id, TRUE, Len(reviews[c].revisions) + 1)
             /\ UNCHANGED <<mapVars, dvcsVars, sessionVars>>

NextStore ==
    \/ \E c \in ChangeIds, base \in Bases : CreateReview(c, base)
    \/ \E c \in ChangeIds, commit_id \in CommitIds,
          description \in {None, Some("summary")} :
          StoreRecordRevision(c, commit_id, description)

SpecStore == Init /\ [][NextStore]_vars

(***************************************************************************)
(*                               SESSIONS                                  *)
(***************************************************************************)
SessionNames == {"s1", "s2"}
MaxPushes == 2       \* pushes of one session

\* format!("session/{name}")
SessionBookmark(name) == <<"session", name>>
BookmarkNames == {MainBookmark} \cup {SessionBookmark(n) : n \in SessionNames}

\* session_new: the change new_change_on creates in the clone, on top of
\* base_bookmark@origin
FirstChange(name) == IF name = "s1" THEN <<"k", "a">> ELSE <<"k", "b">>

\* the change the working copy of a session's clone is at
WorkingChange(name) == clones[name][Len(clones[name])]

\* the clone's live stack, "{base_bookmark}@origin..visible_heads()" asked of
\* the clone, as (change_id, commit_id) pairs; none of the clone's changes is
\* on the trunk yet
live_stack(name) ==
    [i \in 1..Len(clones[name]) |-> <<clones[name][i], commit_of[clones[name][i]]>>]

\* .iter().map(..).collect() into a HashSet
HashSet(vec) == {vec[i] : i \in 1..Len(vec)}

\* session.rs data
Session(name, base_change_id, base_bookmark) ==
    [name |-> name, bookmark |-> SessionBookmark(name),
     base_change_id |-> base_change_id, base_bookmark |-> base_bookmark,
     status |-> "Active", pushes |-> <<>>, changes |-> <<>>]

PushEvent(summary, change_id, commit_id) ==
    [summary |-> summary, change_id |-> change_id, commit_id |-> commit_id]

\* the PushEvent as list_changes reads it, with last_push.changes: the
\* (change_id, commit_id) pairs of the pushed stack, which is the clone's
\* "{base_bookmark}@origin..@"
pushed_stack(name) == live_stack(name)
SnapshotEvent(event, changes) ==
    [summary |-> event.summary, change_id |-> event.change_id,
     commit_id |-> event.commit_id, changes |-> changes]

\* SessionStore::get and SessionStore::save
session_get(name) == IF name \in DOMAIN sessions THEN Some(sessions[name]) ELSE None
session_save(ss, session) ==
    [n \in DOMAIN ss \cup {session.name} |-> IF n = session.name THEN session ELSE ss[n]]

\* Jj::bookmark_delete
bookmark_delete(bm, name) == [n \in DOMAIN bm \ {name} |-> bm[n]]

\* what a session command answers: Ok(()) or an error
Done(op, name, ok) ==
    Resp(op, <<name>>, FALSE, 0, IF ok THEN "true" ELSE "false", None, None)

\* the answer of a step of push that ran jj git push, with the flag it passed
GitPushed(op, name, ok, allow_new) ==
    [op |-> op, id |-> <<name>>, force |-> FALSE, status |-> 0,
     success |-> IF ok THEN "true" ELSE "false", review |-> None,
     thread_id |-> None, allow_new |-> allow_new]

\* push: whether jj git push gets --allow-new
\* a variant that passes --allow-new on every push
allow_new_always(session) == TRUE
allow_new_of(session) == session.pushes = <<>>

\* the message of aipair push -m
Summaries == {"wip"}

\* aipair session new
SessionNew(name, base_bookmark) ==
    IF session_get(name) # None \/ get_bookmark(base_bookmark) = None
    THEN /\ last' = Done("session_new", name, FALSE)
         /\ UNCHANGED <<mapVars, dvcsVars, storeVars, sessionVars>>
    ELSE /\ sessions' = session_save(sessions,
                 Session(name, Unwrap(get_bookmark(base_bookmark)), base_bookmark))
         /\ clones' = [n \in DOMAIN clones \cup {name} |->
                          IF n = name THEN <<FirstChange(name)>> ELSE clones[n]]
         /\ last' = Done("session_new", name, TRUE)
         /\ UNCHANGED <<mapVars, dvcsVars, storeVars, pushing, handling, topics, todos>>

\* aipair push, run in the clone of session name. jj git push creates the
\* bookmark in the trunk repository with --allow-new (first push) and moves it
\* when it is there; without --allow-new and with the bookmark gone from the
\* trunk, jj may accept or reject the push
Push(name, message) ==
    /\ name \in DOMAIN sessions
    /\ Len(sessions[name].pushes) < MaxPushes
    /\ LET session == sessions[name]
           allow_new == allow_new_of(session)
           change == get_change(WorkingChange(name))
       IN  \E accepted \in BOOLEAN :
              /\ allow_new \/ get_bookmark(session.bookmark) # None => accepted
              /\ IF accepted
                 THEN /\ bookmarks' = move_bookmark(bookmarks, session.bookmark,
                                                    change.change_id)
                      /\ sessions' = session_save(sessions,
                             [session EXCEPT
                                 !.pushes = Append(@, SnapshotEvent(
                                                PushEvent(message, change.change_id,
                                                          change.commit_id),
                                                pushed_stack(name))),
                                 !.changes = clones[name]])
                      /\ last' = GitPushed("push", name, TRUE, allow_new)
                 ELSE /\ last' = GitPushed("push", name, FALSE, allow_new)
                      /\ UNCHANGED <<bookmarks, sessions>>
    /\ UNCHANGED <<mapVars, commit_of, descr, storeVars, clones, pushing, handling, topics, todos>>

\* aipair push as the process in the clone runs it beside the commands of the
\* trunk repository, in three steps. First it loads the session document
\* (store.get) into its own copy
PushLoad(name, message) ==
    /\ name \in DOMAIN sessions
    /\ name \notin DOMAIN pushing
    /\ Len(sessions[name].pushes) < MaxPushes
    /\ pushing' = [n \in DOMAIN pushing \cup {name} |->
                       IF n = name
                       THEN [session |-> sessions[name], message |-> message,
                             pushed |-> FALSE]
                       ELSE pushing[n]]
    /\ last' = Done("push_load", name, TRUE)
    /\ UNCHANGED <<mapVars, dvcsVars, storeVars, sessions, clones, handling, topics, todos>>

\* then jj git push moves the bookmark in the trunk repository, --allow-new
\* when the copy has no pushes; if jj rejects the push, push returns the error
PushGit(name) ==
    /\ name \in DOMAIN pushing
    /\ ~pushing[name].pushed
    /\ LET session == pushing[name].session
           allow_new == allow_new_of(session)
       IN  \E accepted \in BOOLEAN :
              /\ allow_new \/ get_bookmark(session.bookmark) # None => accepted
              /\ IF accepted
                 THEN /\ bookmarks' = move_bookmark(bookmarks, session.bookmark,
                                                    WorkingChange(name))
                      /\ pushing' = [pushing EXCEPT ![name].pushed = TRUE]
                      /\ last' = GitPushed("push_git", name, TRUE, allow_new)
                 ELSE /\ bookmarks' = bookmarks
                      /\ pushing' = [n \in DOMAIN pushing \ {name} |-> pushing[n]]
                      /\ last' = GitPushed("push", name, FALSE, allow_new)
    /\ UNCHANGED <<mapVars, commit_of, descr, storeVars, sessions, clones, handling, topics, todos>>

\* last it appends the PushEvent to its copy, sets the copy's changes and
\* saves the copy (store.save)
PushSave(name) ==
    /\ name \in DOMAIN pushing
    /\ pushing[name].pushed
    /\ LET session == pushing[name].session
           change == get_change(WorkingChange(name))
       IN  sessions' = session_save(sessions,
               [session EXCEPT
                   !.pushes = Append(@, SnapshotEvent(
                                  PushEvent(pushing[name].message, change.change_id,
                                            change.commit_id),
                                  pushed_stack(name))),
                   !.changes = clones[name]])
    /\ pushing' = [n \in DOMAIN pushing \ {name} |-> pushing[n]]
    /\ last' = Done("push", name, TRUE)
    /\ UNCHANGED <<mapVars, dvcsVars, storeVars, clones, handling, topics, todos>>

\* aipair pull, run in the clone: fetch, rebase @ onto base_bookmark@origin.
\* The rebase rewrites the working-copy change (another commit_id) when the
\* base is no longer the change the session was created on
Pull(name) ==
    /\ name \in DOMAIN sessions
    /\ LET session == sessions[name]
           moved == get_bookmark(session.base_bookmark) # Some(session.base_change_id)
       IN  commit_of' = IF moved
                        THEN [commit_of EXCEPT ![WorkingChange(name)] =
                                 CHOOSE h \in CommitIds : h # @]
                        ELSE commit_of
    /\ last' = Done("pull", name, TRUE)
    /\ UNCHANGED <<mapVars, descr, bookmarks, storeVars, sessionVars>>

\* a variant of reparent that does not look at the status of the child
reparent_any_status(ss, merged) ==
    [n \in DOMAIN ss |->
        IF ss[n].base_bookmark = merged.bookmark
        THEN [ss[n] EXCEPT !.base_bookmark = merged.base_bookmark]
        ELSE ss[n]]
\* session_merge's re-parenting of the sessions stacked on the merged one
reparent(ss, merged) ==
    [n \in DOMAIN ss |->
        IF ss[n].status = "Active" /\ ss[n].base_bookmark = merged.bookmark
        THEN [ss[n] EXCEPT !.base_bookmark = merged.base_bookmark]
        ELSE ss[n]]

\* aipair session merge (session.rs session_merge)
SessionMerge(name) ==
    IF session_get(name) = None
       \/ sessions[name].status # "Active"
       \/ get_bookmark(sessions[name].bookmark) = None
    THEN /\ last' = Done("session_merge", name, FALSE)
         /\ UNCHANGED <<mapVars, dvcsVars, storeVars, sessionVars>>
    ELSE LET session == sessions[name]
             session_tip == Unwrap(get_bookmark(session.bookmark))
             merged == [session EXCEPT !.status = "Merged"]
         IN  /\ bookmarks' = bookmark_delete(
                     move_bookmark(bookmarks, session.base_bookmark, session_tip),
                     session.bookmark)
             /\ sessions' = reparent(session_save(sessions, merged), merged)
             /\ last' = Done("session_merge", name, TRUE)
             /\ UNCHANGED <<mapVars, commit_of, descr, storeVars, clones, pushing, handling, topics, todos>>

\* POST /sessions/{name}/merge (api.rs merge_session)
MergeSession(name) ==
    IF session_get(name) = None
       \/ sessions[name].status # "Active"
       \/ get_bookmark(sessions[name].bookmark) = None
    THEN /\ last' = Resp("merge_session", <<name>>, FALSE, OK, "false", None, None)
         /\ UNCHANGED <<mapVars, dvcsVars, storeVars, sessionVars>>
    ELSE LET session == sessions[name]
             session_tip == Unwrap(get_bookmark(session.bookmark))
         IN  /\ bookmarks' = bookmark_delete(
                     move_bookmark(bookmarks, MainBookmark, session_tip),
                     session.bookmark)
             /\ sessions' = session_save(sessions, [session EXCEPT !.status = "Merged"])
             /\ last' = Resp("merge_session", <<name>>, FALSE, OK, "true", None, None)
             /\ UNCHANGED <<mapVars, commit_of, descr, storeVars, clones, pushing, handling, topics, todos>>

(***************************************************************************)
(* SpecSession: sessions are created, pushed, pulled and merged.           *)
(***************************************************************************)
NextSession ==
    \/ \E name \in SessionNames, base_bookmark \in BookmarkNames :
          SessionNew(name, base_bookmark)
    \/ \E name \in SessionNames, message \in Summaries : Push(name, message)
    \/ \E name \in SessionNames : Pull(name)
    \/ \E name \in SessionNames : SessionMerge(name)
    \/ \E name \in SessionNames : MergeSession(name)

SpecSession == Init /\ [][NextSession]_vars

(***************************************************************************)
(* SpecSessionRace: the same, the push of a clone running in its steps     *)
(* beside the other commands.                                              *)
(***************************************************************************)
\* the session whose clone pushes
RaceSessions == {"s1"}

NextSessionRace ==
    \/ \E name \in RaceSessions, base_bookmark \in BookmarkNames :
          SessionNew(name, base_bookmark)
    \/ \E name \in RaceSessions, message \in Summaries : PushLoad(name, message)
    \/ \E name \in RaceSessions : PushGit(name)
    \/ \E name \in RaceSessions : PushSave(name)
    \/ \E name \in RaceSessions : Pull(name)
    \/ \E name \in RaceSessions : SessionMerge(name)
    \/ \E name \in RaceSessions : MergeSession(name)

SpecSessionRace == Init /\ [][NextSessionRace]_vars

(***************************************************************************)
(* SpecTopics: the topic store (src/src/topic.rs) under the MCP tools that *)
(* create and update topics.                                               *)
(***************************************************************************)
TopicIds == {"ta", "tb"}

Topic(id, changes, created_at) ==
    [id |-> id, changes |-> changes, status |-> "Active", created_at |-> created_at]

topic_get(topic_id) == IF topic_id \in DOMAIN topics THEN Some(topics[topic_id]) ELSE None
topic_save(topic) ==
    [t \in DOMAIN topics \cup {topic.id} |-> IF t = topic.id THEN topic ELSE topics[t]]

\* Utc::now() at create: later than that of every topic there is
Now == Cardinality(DOMAIN topics) + 1

resolve_change_in_set(changes, prefix) ==
    IF prefix \in changes THEN Some(prefix)
    ELSE LET matches == {id \in changes : starts_with(id, prefix)}
         IN  IF Cardinality(matches) = 1 THEN Some(CHOOSE id \in matches : TRUE)
             ELSE None

\* the first topic of list(), which is sorted by created_at, that the change
\* resolves in
find_topic_for_change(change_id) ==
    LET found == {t \in DOMAIN topics :
                     resolve_change_in_set(topics[t].changes, change_id) # None}
    IN  IF found = {} THEN None
        ELSE Some(CHOOSE t \in found :
                     \A u \in found : topics[t].created_at <= topics[u].created_at)

\* a variant of add_changes_from that does not look at the other topics
RECURSIVE add_changes_unchecked(_, _, _, _)
add_changes_unchecked(topic_id, change_ids, i, changes) ==
    IF i > Len(change_ids) THEN Some(changes)
    ELSE add_changes_unchecked(topic_id, change_ids, i + 1, changes \cup {change_ids[i]})
\* add_changes' loop from change_ids[i] on: the topic's changes with the ids
\* inserted, or None when one of them belongs to another topic
RECURSIVE add_changes_from(_, _, _, _)
add_changes_from(topic_id, change_ids, i, changes) ==
    IF i > Len(change_ids) THEN Some(changes)
    ELSE LET existing_topic == find_topic_for_change(change_ids[i])
         IN  IF existing_topic # None /\ Unwrap(existing_topic) # topic_id
             THEN None
             ELSE add_changes_from(topic_id, change_ids, i + 1,
                                   changes \cup {change_ids[i]})

\* remove_changes' loop: the topic's changes with the ids the prefixes
\* resolve to removed, or None when one of them resolves to nothing
RECURSIVE remove_changes_from(_, _, _)
remove_changes_from(change_ids, i, changes) ==
    IF i > Len(change_ids) THEN Some(changes)
    ELSE LET full_id == resolve_change_in_set(changes, change_ids[i])
         IN  IF full_id = None THEN None
             ELSE remove_changes_from(change_ids, i + 1, changes \ {Unwrap(full_id)})

\* what a topic operation answers: Ok(topic) or an error
TopicDone(op, topic_id, change_ids, ok) ==
    [op |-> op, id |-> topic_id, change_ids |-> change_ids,
     success |-> IF ok THEN "true" ELSE "false"]

\* TopicStore::create
TopicCreate(id) ==
    IF topic_get(id) # None
    THEN /\ last' = TopicDone("create", id, <<>>, FALSE)
         /\ UNCHANGED <<mapVars, dvcsVars, storeVars, sessionVars>>
    ELSE /\ topics' = topic_save(Topic(id, {}, Now))
         /\ last' = TopicDone("create", id, <<>>, TRUE)
         /\ UNCHANGED <<mapVars, dvcsVars, storeVars, sessions, clones, pushing,
                        handling, todos>>

\* TopicStore::add_changes, with the full ids update_topic resolved
TopicAddChanges(topic_id, change_ids) ==
    LET added == IF topic_get(topic_id) = None THEN None
                 ELSE add_changes_from(topic_id, change_ids, 1,
                                       topics[topic_id].changes)
    IN  IF added = None
        THEN /\ last' = TopicDone("add_changes", topic_id, change_ids, FALSE)
             /\ UNCHANGED <<mapVars, dvcsVars, storeVars, sessionVars>>
        ELSE /\ topics' = topic_save([topics[topic_id] EXCEPT !.changes = Unwrap(added)])
             /\ last' = TopicDone("add_changes", topic_id, change_ids, TRUE)
             /\ UNCHANGED <<mapVars, dvcsVars, storeVars, sessions, clones, pushing,
                            handling, todos>>

\* TopicStore::remove_changes, with the ids as update_topic was given them
TopicRemoveChanges(topic_id, change_ids) ==
    LET removed == IF topic_get(topic_id) = None THEN None
                   ELSE remove_changes_from(change_ids, 1, topics[topic_id].changes)
    IN  IF removed = None
        THEN /\ last' = TopicDone("remove_changes", topic_id, change_ids, FALSE)
             /\ UNCHANGED <<mapVars, dvcsVars, storeVars, sessionVars>>
        ELSE /\ topics' = topic_save([topics[topic_id] EXCEPT !.changes = Unwrap(removed)])
             /\ last' = TopicDone("remove_changes", topic_id, change_ids, TRUE)
             /\ UNCHANGED <<mapVars, dvcsVars, storeVars, sessions, clones, pushing,
                            handling, todos>>

\* one or two ids in a request
Requested(ids) == {<<a>> : a \in ids} \cup {<<a, b>> : a \in ids, b \in ids}

NextTopics ==
    \/ \E id \in TopicIds : TopicCreate(id)
    \/ \E topic_id \in TopicIds, change_ids \in Requested(Changes) :
          TopicAddChanges(topic_id, change_ids)
    \/ \E topic_id \in TopicIds, change_ids \in Requested(ChangePrefixes \cup ChangeIds) :
          TopicRemoveChanges(topic_id, change_ids)

SpecTopics == Init /\ [][NextTopics]_vars

(***************************************************************************)
(* SpecSave: push with SessionStore::save in the steps of fs::write.       *)
(***************************************************************************)
\* fs::write opens the file with truncation before it writes the content:
\* what the file holds in between
EmptyFile == <<>>

\* push: the PushEvent is appended to the copy, the copy's changes are set,
\* and store.save opens the session file, which truncates it
PushTruncate(name) ==
    /\ name \in DOMAIN pushing
    /\ pushing[name].pushed
    /\ sessions[name] # EmptyFile
    /\ LET session == pushing[name].session
           change == get_change(WorkingChange(name))
       IN  pushing' = [pushing EXCEPT ![name].session =
               [session EXCEPT
                   !.pushes = Append(@, SnapshotEvent(
                                  PushEvent(pushing[name].message, change.change_id,
                                            change.commit_id),
                                  pushed_stack(name))),
                   !.changes = clones[name]]]
    /\ sessions' = [sessions EXCEPT ![name] = EmptyFile]
    /\ last' = Done("push_save", name, TRUE)
    /\ UNCHANGED <<mapVars, dvcsVars, storeVars, clones, handling, topics, todos>>

\* store.save writes the JSON of the copy into the open file
PushWrite(name) ==
    /\ name \in DOMAIN pushing
    /\ pushing[name].pushed
    /\ sessions[name] = EmptyFile
    /\ sessions' = [sessions EXCEPT ![name] = pushing[name].session]
    /\ pushing' = [n \in DOMAIN pushing \ {name} |-> pushing[n]]
    /\ last' = Done("push", name, TRUE)
    /\ UNCHANGED <<mapVars, dvcsVars, storeVars, clones, handling, topics, todos>>

NextSave ==
    \/ \E name \in SessionNames : SessionNew(name, MainBookmark)
    \/ \E name \in SessionNames, message \in Summaries : PushLoad(name, message)
    \/ \E name \in SessionNames : PushGit(name)
    \/ \E name \in SessionNames : PushTruncate(name)
    \/ \E name \in SessionNames : PushWrite(name)

SpecSave == Init /\ [][NextSave]_vars

(***************************************************************************)
(* SpecFault: the two merge endpoints over a jj and a session store whose  *)
(* calls can fail.                                                         *)
(***************************************************************************)
\* POST /changes/{id}/merge when the named call of the handler returns Err:
\* the handler answers (INTERNAL_SERVER_ERROR, e.to_string()), a body that is
\* the error's text
MergeChangeFault(c, force, fault) ==
    /\ fault = "move_bookmark" => merge_gate(c, force) = "move"
    /\ last' = Resp("merge_change", c, force, INTERNAL_SERVER_ERROR, "none", None, None)
    /\ UNCHANGED <<mapVars, dvcsVars, storeVars, sessionVars>>

\* POST /sessions/{name}/merge when the named call of the handler returns Err;
\* a failing save comes after main was moved and the session bookmark deleted
MergeSessionFault(name, fault) ==
    /\ fault # "get"
          => session_get(name) # None /\ sessions[name].status = "Active"
    /\ fault \in {"move_bookmark", "save"}
          => get_bookmark(sessions[name].bookmark) # None
    /\ bookmarks' = IF fault = "save"
                    THEN bookmark_delete(
                             move_bookmark(bookmarks, MainBookmark,
                                           Unwrap(get_bookmark(sessions[name].bookmark))),
                             sessions[name].bookmark)
                    ELSE bookmarks
    /\ last' = Resp("merge_session", <<name>>, FALSE, INTERNAL_SERVER_ERROR, "none",
                    None, None)
    /\ UNCHANGED <<mapVars, commit_of, descr, storeVars, sessionVars>>

NextFault ==
    \/ \E c \in Reviewed, d \in Descriptions : Describe(c, d)
    \/ \E c \in Changes \cup {UnknownChange}, force \in BOOLEAN : MergeChange(c, force)
    \/ \E c \in Changes, force \in BOOLEAN, fault \in {"get_bookmark", "move_bookmark"} :
          MergeChangeFault(c, force, fault)
    \/ \E name \in RaceSessions : SessionNew(name, MainBookmark)
    \/ \E name \in RaceSessions, message \in Summaries : Push(name, message)
    \/ \E name \in RaceSessions : MergeSession(name)
    \/ \E name \in RaceSessions,
           fault \in {"get", "get_bookmark", "move_bookmark", "save"} :
          MergeSessionFault(name, fault)

SpecFault == Init /\ [][NextFault]_vars

(***************************************************************************)
(* SpecClone: the work in the clone of one session between its pushes, and *)
(* the session summary of GET /changes.                                    *)
(***************************************************************************)
MaxStack == 2        \* changes of one clone's stack

\* the change_id jj gives the next change made in the clone: one no other
\* change has
NewChangeOf(name) == <<"n", name, <<"1", "2", "3", "4">>[Len(clones[name])]>>

\* jj new in the clone: a change on top of @, which becomes @
NewChange(name) ==
    /\ name \in DOMAIN clones
    /\ Len(clones[name]) < MaxStack
    /\ LET change == NewChangeOf(name)
       IN  /\ clones' = [clones EXCEPT ![name] = Append(@, change)]
           /\ \E h \in CommitIds :
                 commit_of' = [c \in DOMAIN commit_of \cup {change} |->
                                  IF c = change THEN h ELSE commit_of[c]]
           /\ descr' = [c \in DOMAIN descr \cup {change} |->
                            IF c = change THEN <<>> ELSE descr[c]]
    /\ last' = Done("new_change", name, TRUE)
    /\ UNCHANGED <<mapVars, bookmarks, storeVars, sessions, pushing, handling, topics, todos>>

\* the author amends the change the clone's working copy is at
AmendClone(name) ==
    /\ name \in DOMAIN clones
    /\ Amend(WorkingChange(name))

\* a variant of pushed_clean that compares the change_ids only
pushed_clean_by_change(name) ==
    LET s == sessions[name]
    IN  IF s.pushes = <<>> THEN FALSE
        ELSE LET last_push == s.pushes[Len(s.pushes)]
             IN  IF last_push.changes = <<>> THEN FALSE
                 ELSE {p[1] : p \in HashSet(last_push.changes)}
                          = {p[1] : p \in HashSet(live_stack(name))}

\* list_changes: pushed_clean of a session summary; the clone of a session is
\* where session_new put it
pushed_clean(name) ==
    LET s == sessions[name]
    IN  IF s.pushes = <<>> THEN FALSE
        ELSE LET last_push == s.pushes[Len(s.pushes)]
             IN  IF last_push.changes = <<>> THEN FALSE
                 ELSE HashSet(last_push.changes) = HashSet(live_stack(name))

\* GET /changes: the session summaries
SessionSummary(name) ==
    [name |-> name,
     status |-> IF sessions[name].status = "Active" THEN "active" ELSE "merged",
     push_count |-> Len(sessions[name].pushes),
     pushed_clean |-> pushed_clean(name)]

ListChanges ==
    /\ last' = Resp("list_changes", <<>>, FALSE, OK, "none",
                    Some([name \in DOMAIN sessions |-> SessionSummary(name)]), None)
    /\ UNCHANGED <<mapVars, dvcsVars, storeVars, sessionVars>>

CloneSessions == {"s1"}

NextClone ==
    \/ \E name \in CloneSessions : SessionNew(name, MainBookmark)
    \/ \E name \in CloneSessions, message \in Summaries : Push(name, message)
    \/ \E name \in CloneSessions : AmendClone(name)
    \/ \E name \in CloneSessions : NewChange(name)
    \/ ListChanges

SpecClone == Init /\ [][NextClone]_vars

(***************************************************************************)
(* SpecSessionGate: one session on main whose change is under review.      *)
(***************************************************************************)
GateSessions == {"s1"}

NextSessionGate ==
    \/ \E name \in GateSessions : SessionNew(name, MainBookmark)
    \/ \E name \in GateSessions, message \in Summaries : Push(name, message)
    \/ \E name \in GateSessions : Pull(name)
    \/ \E c \in Reviewed, base \in Bases : CreateReview(c, base)
    \/ \E c \in Reviewed, file \in Files, range \in GateRanges, new_id \in GateThreadIds :
          AddComment(c, file, range, new_id)
    \/ \E c \in Reviewed, tp \in GateThreadIds : Resolve(c, tp)
    \/ \E name \in GateSessions : SessionMerge(name)
    \/ \E name \in GateSessions : MergeSession(name)

SpecSessionGate == Init /\ [][NextSessionGate]_vars

(***************************************************************************)
(* SpecMap: a thread position is mapped through the hunks of one diff.     *)
(***************************************************************************)
InitMap ==
    /\ hunks \in HunkLists
    /\ old_line \in 1..MaxLine
    /\ mapping = NoMapping
    /\ batch = <<>>
    /\ InitDvcs
    /\ InitStore
    /\ InitSessions
    /\ last = NoRequest

\* map_all_threads, `let mapped_start = map_line(thread.line_start, &hunks)`
MapLine ==
    /\ mapping = NoMapping
    /\ mapping' = map_line(old_line, hunks)
    /\ UNCHANGED <<hunks, old_line, batch, dvcsVars, storeVars, sessionVars, last>>

NextMap == MapLine

SpecMap == InitMap /\ [][NextMap]_vars

(***************************************************************************)
(* SpecExtract: extract_nearby_hunks (review.rs and, line for line the     *)
(* same, mcp.rs) applied to the text of one file's `jj diff --git`.        *)
(***************************************************************************)
MaxDiffLines == 3    \* lines below the `@@` headers in the whole diff text

\* A line of the diff text by what it starts with, and the rest of it: the
\* (start, count) of the new-file range for an `@@` header, a number that
\* tells the line from the others for the rest.
\*   "diff"  diff --git, index, ---, +++      "@@"  hunk header
\*   " "     context         "+"  added       "-"  deleted
\*   "\\"    \ No newline at end of file
Line(prefix, body) == [prefix |-> prefix, body |-> body]
Prefixes == {" ", "+", "-", "\\"}
PositionedPrefixes == {" ", "+"}

\* the marker follows the last line of the old or of the new file: it is not
\* the first line of a hunk, does not follow a marker, and no line of the side
\* that has ended comes after it
MarkerPlaced(body, m) ==
    /\ m > 1
    /\ body[m - 1] # "\\"
    /\ body[m - 1] \in {"-", " "} =>
           \A j \in m + 1..Len(body) : body[j] \in {"+", "\\"}
    /\ body[m - 1] \in {"+", " "} =>
           \A j \in m + 1..Len(body) : body[j] \in {"-", "\\"}

HasMarker(body) == \E m \in 1..Len(body) : body[m] = "\\"

HunkBodies(n) ==
    {body \in UNION {[1..k -> Prefixes] : k \in 1..n} :
        \A m \in 1..Len(body) : body[m] = "\\" => MarkerPlaced(body, m)}

NewCount(body) ==
    Cardinality({j \in 1..Len(body) : body[j] \in PositionedPrefixes})

\* the text of one hunk: its header and its lines, numbered from `first` on
HunkText(start, body, first) ==
    <<Line("@@", <<start, NewCount(body)>>)>>
    \o [j \in 1..Len(body) |-> Line(body[j], first + j)]

FileHeader == <<Line("diff", 0)>>
DiffStarts == {1, 3}
DiffGaps == {1, 2}

DiffTexts ==
    {<<>>}
    \cup {FileHeader \o HunkText(start, body, 0) :
             start \in DiffStarts, body \in HunkBodies(MaxDiffLines)}
    \cup UNION {{FileHeader \o HunkText(start, b1, 0)
                    \o HunkText(start + NewCount(b1) + gap, b2, Len(b1)) :
                    start \in DiffStarts, gap \in DiffGaps,
                    b2 \in HunkBodies(MaxDiffLines - Len(b1))} :
                 b1 \in {b \in HunkBodies(MaxDiffLines - 1) : ~HasMarker(b)}}

saturating_sub(a, b) == IF a > b THEN a - b ELSE 0

\* parse_new_file_range of an `@@` header
parse_new_file_range(header) == [start |-> header.body[1], count |-> header.body[2]]

DiffLine(text, new_line) == [text |-> text, new_line |-> new_line]

\* first pass: the diff lines with their new-file line numbers
RECURSIVE collect_diff_lines(_, _, _)
collect_diff_lines(diff_text, i, new_pos) ==
    IF i > Len(diff_text) THEN <<>>
    ELSE LET line == diff_text[i]
         IN  IF line.prefix = "diff"
             THEN collect_diff_lines(diff_text, i + 1, new_pos)
             ELSE IF line.prefix = "@@"
             THEN <<DiffLine(line, Some(parse_new_file_range(line).start))>>
                  \o collect_diff_lines(diff_text, i + 1,
                                        parse_new_file_range(line).start)
             ELSE IF line.prefix = "-"
             THEN <<DiffLine(line, None)>>
                  \o collect_diff_lines(diff_text, i + 1, new_pos)
             ELSE <<DiffLine(line, Some(new_pos))>>
                  \o collect_diff_lines(diff_text, i + 1, new_pos + 1)

\* second pass: the lines in the target window, in order
RECURSIVE emit_window(_, _, _, _, _)
emit_window(diff_lines, i, target_start, target_end, last_was_included) ==
    IF i > Len(diff_lines) THEN <<>>
    ELSE LET dl == diff_lines[i]
             include == IF dl.new_line # None
                        THEN /\ Unwrap(dl.new_line) >= target_start
                             /\ Unwrap(dl.new_line) <= target_end
                        ELSE last_was_included
         IN  IF dl.text.prefix = "@@"
             THEN LET range == parse_new_file_range(dl.text)
                      hunk_end == range.start + range.count
                  IN  (IF range.start <= target_end /\ hunk_end >= target_start
                       THEN <<dl.text>> ELSE <<>>)
                      \o emit_window(diff_lines, i + 1, target_start, target_end, FALSE)
             ELSE IF include
             THEN <<dl.text>>
                  \o emit_window(diff_lines, i + 1, target_start, target_end, TRUE)
             ELSE emit_window(diff_lines, i + 1, target_start, target_end, FALSE)

extract_nearby_hunks(diff_text, line_start, line_end, padding) ==
    emit_window(collect_diff_lines(diff_text, 1, 0), 1,
                saturating_sub(line_start, padding), line_end + padding, FALSE)

Paddings == {0, 2}
MaxWindowLine == 5

InitExtract ==
    /\ hunks \in DiffTexts
    /\ old_line = 1
    /\ mapping = NoMapping
    /\ batch = <<>>
    /\ InitDvcs
    /\ InitStore
    /\ InitSessions
    /\ last = NoRequest

\* format_pending_feedback asks for the lines around a thread's range
ExtractNearbyHunks(line_start, line_end, padding) ==
    /\ last = NoRequest
    /\ line_start <= line_end
    /\ last' = [op |-> "extract_nearby_hunks", line_start |-> line_start,
                line_end |-> line_end, padding |-> padding,
                nearby |-> extract_nearby_hunks(hunks, line_start, line_end, padding)]
    /\ UNCHANGED <<mapVars, dvcsVars, storeVars, sessionVars>>

NextExtract ==
    \E line_start \in 1..MaxWindowLine, line_end \in 1..MaxWindowLine,
       padding \in Paddings :
        ExtractNearbyHunks(line_start, line_end, padding)

SpecExtract == InitExtract /\ [][NextExtract]_vars

(***************************************************************************)
(* SpecThreads: map_all_threads. The first loop (stored positions, groups) *)
(* is one step; the second loop takes one group per step, each with the    *)
(* answer of jj.diff_raw_between for it.                                   *)
(***************************************************************************)
MaxBatchTags == 2    \* hunk lines of a diff answered to map_all_threads

NoBatch == <<>>
BatchFiles == {"f.rs", "g.rs"}
BatchRanges == {<<1, 1>>, <<2, 3>>}

MappedPosition(line_start, line_end, is_deleted) ==
    [line_start |-> line_start, line_end |-> line_end, is_deleted |-> is_deleted]

\* the threads of a review as map_all_threads reads them: ids distinct, the
\* commit of a legacy thread unset
BatchThread(id, file, range, created_at_commit) ==
    [Thread(id, file, range[1], range[2], <<>>, "h1", None)
        EXCEPT !.created_at_commit = created_at_commit]
BatchThreadsOf(id) ==
    {BatchThread(id, file, range, commit) :
        file \in BatchFiles, range \in BatchRanges,
        commit \in {None} \cup {Some(h) : h \in CommitIds}}
BatchThreads ==
    {<<>>}
    \cup {<<t>> : t \in BatchThreadsOf(<<"a", "1">>)}
    \cup {<<t, u>> : t \in BatchThreadsOf(<<"a", "1">>), u \in BatchThreadsOf(<<"a", "2">>)}

\* what jj.diff_raw_between answers: an error, or a text; of the text, whether
\* it is blank, whether it contains "deleted file", and the hunks
\* parse_file_hunks finds in it for the file
DiffResult(ok, blank, deleted_file, hs) ==
    [ok |-> ok, blank |-> blank, deleted_file |-> deleted_file, hunks |-> hs]
BatchHunkLists == {<<>>} \cup {<<Hunk(2, 0, 2, t)>> : t \in TagSeqs(MaxBatchTags) \ {<<>>}}
DiffResults ==
    {DiffResult(FALSE, TRUE, FALSE, <<>>), DiffResult(TRUE, TRUE, FALSE, <<>>)}
    \cup {DiffResult(TRUE, FALSE, d, hs) : d \in BOOLEAN, hs \in BatchHunkLists}

\* a variant of needs_mapping that takes every thread with a commit
needs_mapping_any_commit(thread, target_commit) ==
    thread.created_at_commit # None
\* `Some(c) if c != target_commit`: the thread needs mapping
needs_mapping(thread, target_commit) ==
    thread.created_at_commit # None /\ Unwrap(thread.created_at_commit) # target_commit

group_key(thread) == <<thread.file, Unwrap(thread.created_at_commit)>>

stored_position(thread, is_deleted) ==
    MappedPosition(thread.line_start, thread.line_end, is_deleted)

\* a variant of map_thread that takes is_deleted from the start line only
map_thread_by_start(thread, diff) ==
    IF ~diff.ok THEN stored_position(thread, TRUE)
    ELSE IF diff.blank THEN stored_position(thread, FALSE)
    ELSE IF diff.hunks = <<>> /\ diff.deleted_file THEN stored_position(thread, TRUE)
    ELSE LET mapped_start == map_line(thread.line_start, diff.hunks)
             mapped_end == map_line(thread.line_end, diff.hunks)
         IN  MappedPosition(mapped_start.new_line, mapped_end.new_line,
                            mapped_start.was_deleted)
\* the position of one thread of a group, given the diff answered for the group
map_thread(thread, diff) ==
    IF ~diff.ok THEN stored_position(thread, TRUE)
    ELSE IF diff.blank THEN stored_position(thread, FALSE)
    ELSE IF diff.hunks = <<>> /\ diff.deleted_file THEN stored_position(thread, TRUE)
    ELSE LET mapped_start == map_line(thread.line_start, diff.hunks)
             mapped_end == map_line(thread.line_end, diff.hunks)
         IN  MappedPosition(mapped_start.new_line, mapped_end.new_line,
                            mapped_start.was_deleted \/ mapped_end.was_deleted)

\* results.insert for the threads `put` of the batch
insert_positions(results, put, position) ==
    [id \in DOMAIN results \cup {put[i].id : i \in DOMAIN put} |->
        IF \E i \in DOMAIN put : put[i].id = id
        THEN position[CHOOSE i \in DOMAIN put : put[i].id = id]
        ELSE results[id]]

\* map_all_threads up to the end of its first loop
MapAllThreads(threads, target_commit) ==
    /\ batch = NoBatch
    /\ LET stored == SelectSeq(threads, LAMBDA t : ~needs_mapping(t, target_commit))
           mapped == SelectSeq(threads, LAMBDA t : needs_mapping(t, target_commit))
       IN  batch' = [threads |-> threads, target_commit |-> target_commit,
                     results |-> insert_positions(<<>>, stored,
                                     [i \in DOMAIN stored |->
                                         stored_position(stored[i], FALSE)]),
                     groups |-> {group_key(mapped[i]) : i \in DOMAIN mapped},
                     diffs |-> <<>>]
    /\ UNCHANGED <<hunks, old_line, mapping, dvcsVars, storeVars, sessionVars, last>>

\* one round of the second loop: the diff of a group is asked for and its
\* threads are mapped
MapGroup(key, diff) ==
    /\ batch # NoBatch
    /\ key \in batch.groups
    /\ LET group_threads ==
               SelectSeq(batch.threads,
                         LAMBDA t : needs_mapping(t, batch.target_commit)
                                    /\ group_key(t) = key)
       IN  batch' = [batch EXCEPT
               !.results = insert_positions(@, group_threads,
                               [i \in DOMAIN group_threads |->
                                   map_thread(group_threads[i], diff)]),
               !.groups = @ \ {key},
               !.diffs = Append(@, [file |-> key[1], from_commit |-> key[2],
                                    answer |-> diff])]
    /\ UNCHANGED <<hunks, old_line, mapping, dvcsVars, storeVars, sessionVars, last>>

NextThreads ==
    \/ \E threads \in BatchThreads, target_commit \in CommitIds :
          MapAllThreads(threads, target_commit)
    \/ \E file \in BatchFiles, from_commit \in CommitIds, diff \in DiffResults :
          MapGroup(<<file, from_commit>>, diff)

SpecThreads == Init /\ [][NextThreads]_vars

(***************************************************************************)
(* SpecPrefix: ReviewStore::get_by_prefix as the CLI and the MCP tools call *)
(* it, in a repository the server may not have been started in yet.        *)
(***************************************************************************)
\* what a lookup can name: full change ids, a shared prefix, one no file has
LookupPrefixes == ChangeIds \cup {<<"k">>, <<"k", "z">>}

InitPrefix ==
    /\ IdleMap
    /\ InitDvcs
    /\ InitSessions
    /\ reviews = <<>> /\ store_dir = FALSE
    /\ last = NoRequest

\* ReviewStore::init, run by serve before the server takes requests
StoreInit ==
    /\ ~store_dir
    /\ store_dir' = TRUE
    /\ last' = Resp("init", <<>>, FALSE, 0, "none", None, None)
    /\ UNCHANGED <<mapVars, dvcsVars, reviews, sessionVars>>

\* ReviewStore::get_by_prefix: Ok(None), Ok(Some(review)) or Err, and which Err
Found(prefix, outcome, change_id) ==
    [op |-> "get_by_prefix", prefix |-> prefix, outcome |-> outcome,
     change_id |-> change_id]
GetByPrefix(prefix) ==
    /\ last' = IF get_by_prefix_fails(prefix) THEN Found(prefix, "io_error", None)
               ELSE IF get_by_prefix_ambiguous(prefix)
                    THEN Found(prefix, "ambiguous", None)
               ELSE IF get_by_prefix(prefix) = None THEN Found(prefix, "none", None)
               ELSE Found(prefix, "review", get_by_prefix(prefix))
    /\ UNCHANGED <<mapVars, dvcsVars, storeVars, sessionVars>>

NextPrefix ==
    \/ StoreInit
    \/ \E c \in ChangeIds, base \in Bases : CreateReview(c, base)
    \/ \E c \in ChangeIds, file \in Files, range \in GateRanges, new_id \in GateThreadIds :
          AddComment(c, file, range, new_id)
    \/ \E prefix \in LookupPrefixes : GetByPrefix(prefix)

SpecPrefix == InitPrefix /\ [][NextPrefix]_vars

(***************************************************************************)
(* SpecPush: aipair push in its steps, run in the clone of a session whose *)
(* author keeps working, beside aipair session merge in the trunk.         *)
(***************************************************************************)
PushSessions == {"s1"}
PushSummaries == {"m1", "m2"}

NextPush ==
    \/ \E name \in PushSessions : SessionNew(name, MainBookmark)
    \/ \E name \in PushSessions, message \in PushSummaries : PushLoad(name, message)
    \/ \E name \in PushSessions : PushGit(name)
    \/ \E name \in PushSessions : PushSave(name)
    \/ \E name \in PushSessions : AmendClone(name)
    \/ \E name \in PushSessions : NewChange(name)
    \/ \E name \in PushSessions : SessionMerge(name)

SpecPush == Init /\ [][NextPush]_vars

(***************************************************************************)
(* SpecTodos: the todo tree (src/src/todo.rs) under the /api/todos          *)
(* handlers, each of which loads the tree, applies one call and, when the  *)
(* call returns Ok, has saved it.                                          *)
(***************************************************************************)
\* the ids Uuid::new_v4().to_string()[..8] comes up with, and the ids a
\* request names
TodoIds == {"t1", "t2", "t3"}
MaxTodos == 3        \* entries of root_ids and of the children lists together

TodoItem(id) == [id |-> id, children |-> <<>>]

\* Vec::retain(|x| x != id)
RECURSIVE retain_not(_, _)
retain_not(vec, id) ==
    IF vec = <<>> THEN <<>>
    ELSE (IF Head(vec) = id THEN <<>> ELSE <<Head(vec)>>) \o retain_not(Tail(vec), id)

\* Vec::insert(pos, x), pos counted from 0
vec_insert(vec, pos, x) ==
    SubSeq(vec, 1, pos) \o <<x>> \o SubSeq(vec, pos + 1, Len(vec))

\* add_item and move_item, "match after_id": behind the first after_id among
\* the siblings, at the end when it is not among them, in front without one
insert_sibling(siblings, id, after_id) ==
    IF after_id = None THEN vec_insert(siblings, 0, id)
    ELSE LET at == {i \in 1..Len(siblings) : siblings[i] = Unwrap(after_id)}
         IN  IF at # {} THEN vec_insert(siblings, First(at), id)
             ELSE Append(siblings, id)

\* the siblings list of parent_id (root_ids without a parent) with id inserted
insert_under(tree, id, parent_id, after_id) ==
    IF parent_id = None
    THEN [tree EXCEPT !.root_ids = insert_sibling(@, id, after_id)]
    ELSE [tree EXCEPT !.items[Unwrap(parent_id)].children =
                          insert_sibling(@, id, after_id)]

\* the outcome of a call: Ok and the tree it saved, or Err
TodoOk(tree) == [ok |-> TRUE, tree |-> tree]
TodoErr == [ok |-> FALSE, tree |-> EmptyTree]

\* TodoStore::add_item, id the new item's id
add_item(tree, id, parent_id, after_id) ==
    LET inserted == [tree EXCEPT !.items =
                        [x \in DOMAIN tree.items \cup {id} |->
                            IF x = id THEN TodoItem(id) ELSE tree.items[x]]]
    IN  IF parent_id # None /\ Unwrap(parent_id) \notin DOMAIN inserted.items
        THEN TodoErr
        ELSE TodoOk(insert_under(inserted, id, parent_id, after_id))

\* delete_item, "Collect all descendant ids to remove": the ids the loop
\* visits, from id on
RECURSIVE to_remove(_, _)
to_remove(tree, ids) ==
    LET more == ids \cup UNION {{tree.items[x].children[i] :
                                    i \in 1..Len(tree.items[x].children)} :
                                x \in ids \cap DOMAIN tree.items}
    IN  IF more = ids THEN ids ELSE to_remove(tree, more)

\* the loop appends the children of every id it visits: it comes to an end
\* only if no id it visits is reached again from itself
RECURSIVE visits(_, _, _)
visits(tree, id, n) ==
    IF n = 0 \/ id \notin DOMAIN tree.items THEN {}
    ELSE LET children == {tree.items[id].children[i] :
                              i \in 1..Len(tree.items[id].children)}
         IN  children \cup UNION {visits(tree, c, n - 1) : c \in children}
delete_terminates(tree, id) ==
    \A x \in to_remove(tree, {id}) :
        x \notin visits(tree, x, Cardinality(DOMAIN tree.items))

\* TodoStore::delete_item
delete_item(tree, id) ==
    LET removed == to_remove(tree, {id})
    IN  TodoOk([root_ids |-> retain_not(tree.root_ids, id),
                items |-> [x \in DOMAIN tree.items \ removed |->
                              [tree.items[x] EXCEPT !.children = retain_not(@, id)]]])

\* TodoStore::move_item
move_item(tree, id, new_parent_id, after_id) ==
    IF id \notin DOMAIN tree.items THEN TodoErr
    ELSE LET removed ==
                 [root_ids |-> retain_not(tree.root_ids, id),
                  items |-> [x \in DOMAIN tree.items |->
                                IF x # id
                                THEN [tree.items[x] EXCEPT
                                         !.children = retain_not(@, id)]
                                ELSE tree.items[x]]]
         IN  IF new_parent_id # None
                /\ Unwrap(new_parent_id) \notin DOMAIN removed.items
             THEN TodoErr
             ELSE TodoOk(insert_under(removed, id, new_parent_id, after_id))

\* the entries of root_ids and of all children lists
RECURSIVE SumLen(_, _)
SumLen(items, ids) ==
    IF ids = {} THEN 0
    ELSE LET x == CHOOSE y \in ids : TRUE
         IN  Len(items[x].children) + SumLen(items, ids \ {x})
Entries(tree) == Len(tree.root_ids) + SumLen(tree.items, DOMAIN tree.items)

\* what a todo handler answers: the tree (200) or the error's text (400)
TodoDone(op, id, parent_id, ok) ==
    [op |-> op, id |-> id, parent_id |-> parent_id,
     status |-> IF ok THEN OK ELSE BAD_REQUEST]

\* the handler saved the tree the call returned, or nothing
TodoAnswer(op, id, parent_id, done) ==
    /\ todos' = IF done.ok THEN done.tree ELSE todos
    /\ last' = TodoDone(op, id, parent_id, done.ok)
    /\ UNCHANGED <<mapVars, dvcsVars, storeVars, sessions, clones, pushing,
                   handling, topics>>

\* POST /api/todos
CreateTodo(id, parent_id, after_id) ==
    /\ Entries(todos) < MaxTodos
    /\ TodoAnswer("create_todo", id, parent_id,
                  add_item(todos, id, parent_id, after_id))

\* PATCH /api/todos/{id} with a parent_id: "" is the root
MoveTodo(id, parent_id, after_id) ==
    /\ Entries(move_item(todos, id, parent_id, after_id).tree) <= MaxTodos
    /\ TodoAnswer("move_todo", id, parent_id,
                  move_item(todos, id, parent_id, after_id))

\* DELETE /api/todos/{id}; over a cycle the handler does not come back
DeleteTodo(id) ==
    /\ delete_terminates(todos, id)
    /\ TodoAnswer("delete_todo", id, None, delete_item(todos, id))

OptionalTodoIds == {None} \cup {Some(id) : id \in TodoIds}

NextTodos ==
    \/ \E id \in TodoIds, parent_id \in OptionalTodoIds, after_id \in OptionalTodoIds :
          CreateTodo(id, parent_id, after_id)
    \/ \E id \in TodoIds, parent_id \in OptionalTodoIds, after_id \in OptionalTodoIds :
          MoveTodo(id, parent_id, after_id)
    \/ \E id \in TodoIds : DeleteTodo(id)

SpecTodos == Init /\ [][NextTodos]_vars

(***************************************************************************)
(*                      PROPERTIES OF THE LINE MAPPER                      *)
(***************************************************************************)
Mapped == mapping # NoMapping

\* the entries of a hunk and their positions, read off the tag list
Survivor == {"Context", "Add"}
OldEntry == {"Context", "Delete"}
EntriesBefore(h, i, kinds) == Cardinality({j \in 1..(i - 1) : h.lines[j] \in kinds})
OldPosOf(h, i) == h.old_start + EntriesBefore(h, i, OldEntry)
NewPosOf(h, i) == h.new_start + EntriesBefore(h, i, Survivor)
InOldRange(h, line) == h.old_start <= line /\ line < h.old_start + h.old_count
\* entry i of hunk h is old line `line`
IsEntryOf(h, i, line, kind) ==
    /\ i \in 1..Len(h.lines)
    /\ h.lines[i] = kind
    /\ OldPosOf(h, i) = line
    /\ InOldRange(h, line)
SurvivorsAfter(h, i) == {j \in (i + 1)..Len(h.lines) : h.lines[j] \in Survivor}
SurvivorsBefore(h, i) == {j \in 1..(i - 1) : h.lines[j] \in Survivor}
Max(S) == CHOOSE x \in S : \A y \in S : y <= x
Min(S) == CHOOSE x \in S : \A y \in S : x <= y
HunkIdx == 1..Len(hunks)

RECURSIVE SumOffsets(_)
SumOffsets(K) ==
    IF K = {} THEN 0
    ELSE LET k == CHOOSE x \in K : TRUE
         IN  hunks[k].new_count - hunks[k].old_count + SumOffsets(K \ {k})

\* The isize sum that map_line casts to usize is never negative on these inputs.
CastIsIdentity ==
    \A K \in SUBSET HunkIdx :
        (\A k \in K : hunks[k].old_start + hunks[k].old_count <= old_line)
            => old_line + SumOffsets(K) >= 1

\* C4: a deleted line with no Context or Add entry after it in its hunk maps to
\* was_deleted = true at the new-file position of the last Context or Add entry
\* before it (when the hunk has one).
C4_DeletedAnchorsBackward ==
    Mapped =>
        \A k \in HunkIdx : \A i \in 1..Len(hunks[k].lines) :
            ( /\ IsEntryOf(hunks[k], i, old_line, "Delete")
              /\ SurvivorsAfter(hunks[k], i) = {}
              /\ SurvivorsBefore(hunks[k], i) # {} )
            => mapping = LineMapping(
                   NewPosOf(hunks[k], Max(SurvivorsBefore(hunks[k], i))), TRUE)

\* C5: a deleted line with a Context or Add entry after it in its hunk maps to
\* was_deleted = true at the new-file position of the first such entry.
C5_DeletedAnchorsForward ==
    Mapped =>
        \A k \in HunkIdx : \A i \in 1..Len(hunks[k].lines) :
            ( /\ IsEntryOf(hunks[k], i, old_line, "Delete")
              /\ SurvivorsAfter(hunks[k], i) # {} )
            => mapping = LineMapping(
                   NewPosOf(hunks[k], Min(SurvivorsAfter(hunks[k], i))), TRUE)

\* C5 witness: the line is deleted, another Delete entry follows it and a
\* surviving entry follows that one.
C5_Witness ==
    /\ Mapped
    /\ \E k \in HunkIdx : \E i \in 1..Len(hunks[k].lines) :
          /\ IsEntryOf(hunks[k], i, old_line, "Delete")
          /\ i + 2 <= Len(hunks[k].lines)
          /\ hunks[k].lines[i + 1] = "Delete"
          /\ hunks[k].lines[i + 2] \in Survivor
          /\ mapping = LineMapping(NewPosOf(hunks[k], i + 2), TRUE)

\* C6: map_line always returns new_line >= 1.
C6_NewLinePositive == Mapped => mapping.new_line >= 1

EndsBefore(h, line) == h.old_start + h.old_count <= line

\* C7: an old line outside every hunk's old range maps to itself plus the sum of
\* (new_count - old_count) over the hunks whose old range ends before it, not deleted.
C7_OffsetAccumulation ==
    (Mapped /\ \A k \in HunkIdx : ~InOldRange(hunks[k], old_line)) =>
        mapping = LineMapping(
            old_line + SumOffsets({k \in HunkIdx : EndsBefore(hunks[k], old_line)}),
            FALSE)

\* C7 witness: the line lies between two hunks, the first of which shifts it.
C7_Witness ==
    /\ Mapped
    /\ Len(hunks) = 2
    /\ hunks[1].old_count = OldLen(hunks[1].lines)
    /\ hunks[2].old_count = OldLen(hunks[2].lines)
    /\ EndsBefore(hunks[1], old_line)
    /\ old_line < hunks[2].old_start
    /\ hunks[1].new_count # hunks[1].old_count
    /\ hunks[2].new_count # hunks[2].old_count
    /\ mapping.new_line = old_line + hunks[1].new_count - hunks[1].old_count

\* C8: an old line that is a Context entry of a hunk maps to new_start plus the
\* number of Context and Add entries before that entry, not deleted.
C8_ContextInsideHunk ==
    Mapped =>
        \A k \in HunkIdx : \A i \in 1..Len(hunks[k].lines) :
            IsEntryOf(hunks[k], i, old_line, "Context")
            => mapping = LineMapping(
                   hunks[k].new_start + EntriesBefore(hunks[k], i, Survivor), FALSE)

\* C8 witness: a Context entry with an Add entry before it, as in
\* test_map_line_context_inside_hunk.
C8_Witness ==
    /\ Mapped
    /\ \E k \in HunkIdx : \E i \in 2..Len(hunks[k].lines) :
          /\ IsEntryOf(hunks[k], i, old_line, "Context")
          /\ hunks[k].lines[i - 1] = "Add"
          /\ mapping.new_line > hunks[k].new_start
          /\ ~mapping.was_deleted

(***************************************************************************)
(*                PROPERTIES OF THE SINGLE-CHANGE MERGE GATE               *)
(***************************************************************************)
\* the step just taken answered merge_change for change c with this force
MergeAnswered(c, force) ==
    last'.op = "merge_change" /\ last'.id = c /\ last'.force = force

\* the three forceable preconditions, read off the state the request meets
Described(c) == \E i \in 1..Len(descr[c]) : descr[c][i] \notin Whitespace
Recorded(c) ==
    /\ c \in DOMAIN reviews
    /\ reviews[c].revisions # <<>>
    /\ reviews[c].revisions[Len(reviews[c].revisions)].commit_id = commit_of[c]
NoOpenThread(c) ==
    c \in DOMAIN reviews =>
        \A i \in 1..Len(reviews[c].threads) : reviews[c].threads[i].status # "Open"
Mergeable(c) == Described(c) /\ Recorded(c) /\ NoOpenThread(c)

MovedTo(c) == bookmarks[MainBookmark] # c /\ bookmarks'[MainBookmark] = c

\* C1: merge_change with force=false moves main to the change only if the
\* change is described, its last recorded revision is its current commit and
\* no thread is Open; if one of these fails the response has success=false and
\* the bookmark stays where it was.
C1_UnforcedGate ==
    [][\A c \in Changes :
          MergeAnswered(c, FALSE) =>
              /\ MovedTo(c) => Mergeable(c)
              /\ ~Mergeable(c) => last'.success = "false" /\ bookmarks' = bookmarks]_vars

\* an unforced merge went through, on a review whose thread had been resolved
C1_Witness ==
    /\ last.op = "merge_change" /\ ~last.force /\ last.success = "true"
    /\ bookmarks[MainBookmark] = last.id
    /\ last.id \in DOMAIN reviews
    /\ \E i \in 1..Len(reviews[last.id].threads) :
          reviews[last.id].threads[i].status = "Resolved"

\* C2: merge_change with force=true moves main to the change and answers
\* success=true whatever the description, the revisions and the threads are;
\* a change already at main is refused, bookmark unchanged, forced or not.
C2_ForcedGate ==
    [][\A c \in Changes :
          /\ MergeAnswered(c, TRUE) /\ bookmarks[MainBookmark] # c =>
                bookmarks'[MainBookmark] = c /\ last'.success = "true"
          /\ \A force \in BOOLEAN :
                MergeAnswered(c, force) /\ bookmarks[MainBookmark] = c =>
                    last'.success = "false" /\ bookmarks' = bookmarks]_vars

\* a forced merge went through for a change with no description and no review
C2_Witness ==
    /\ last.op = "merge_change" /\ last.force /\ last.success = "true"
    /\ bookmarks[MainBookmark] = last.id
    /\ last.id \in ChangeIds
    /\ descr[last.id] = <<>>
    /\ last.id \notin DOMAIN reviews

(***************************************************************************)
(*                     PROPERTIES OF THE REVIEW STORE                      *)
(***************************************************************************)
PendingIn(revisions) == {i \in 1..Len(revisions) : revisions[i].is_pending}

PersistedNotPending ==
    \A c \in DOMAIN reviews : PendingIn(reviews[c].revisions) = {}

ReturnedPendingLast ==
    last.op \in {"get_review", "create_review"} /\ last.review # None =>
        LET revisions == Unwrap(last.review).revisions
        IN  /\ Cardinality(PendingIn(revisions)) <= 1
            /\ \A i \in PendingIn(revisions) : i = Len(revisions)

ReadKeepsStore == last'.op = "get_review" => reviews' = reviews

\* C9: no persisted revision is pending; a review returned by get_review or
\* create_review has at most one pending revision and it is the last one; a
\* read leaves the persisted reviews as they were.
C9_PendingReadOnly ==
    [](PersistedNotPending /\ ReturnedPendingLast) /\ [][ReadKeepsStore]_vars

\* get_review returned a pending revision after a recorded one
C9_Witness ==
    /\ last.op = "get_review" /\ last.review # None
    /\ Len(Unwrap(last.review).revisions) = 2
    /\ PendingIn(Unwrap(last.review).revisions) = {2}
    /\ Len(reviews[last.id].revisions) = 1

HasKey(t, file, range) ==
    t.file = file /\ t.line_start = range[1] /\ t.line_end = range[2]

\* what add_comment is to do to the threads old of a review, giving new
KeyedAppend(old, new, file, range, commit_id) ==
    LET keyed == {i \in 1..Len(old) : HasKey(old[i], file, range)}
    IN  IF keyed # {}
        THEN /\ Len(new) = Len(old)
             /\ \A i \in 1..Len(old) :
                   IF i \in keyed
                   THEN new[i] = [old[i] EXCEPT !.comments =
                                      Append(@, Comment("User", "text"))]
                   ELSE new[i] = old[i]
        ELSE /\ Len(new) = Len(old) + 1
             /\ SubSeq(new, 1, Len(old)) = old
             /\ HasKey(new[Len(new)], file, range)
             /\ new[Len(new)].status = "Open"
             /\ new[Len(new)].comments = <<Comment("User", "text")>>
             /\ new[Len(new)].created_at_commit = Some(commit_id)

KeysDistinct ==
    \A c \in DOMAIN reviews :
        \A i, j \in 1..Len(reviews[c].threads) :
            /\ reviews[c].threads[i].file = reviews[c].threads[j].file
            /\ reviews[c].threads[i].line_start = reviews[c].threads[j].line_start
            /\ reviews[c].threads[i].line_end = reviews[c].threads[j].line_end
            => i = j

\* C10: add_comment appends to the thread that has the same (file, line_start,
\* line_end) and creates none, or else creates exactly one Open thread holding
\* the comment with created_at_commit the caller's commit_id; no review has two
\* threads with the same (file, line_start, line_end).
C10_KeyedThreads ==
    /\ []KeysDistinct
    /\ [][\A c \in Reviewed, file \in Files, range \in LineRanges, new_id \in ThreadIds :
             c \in DOMAIN reviews /\ AddComment(c, file, range, new_id) =>
                 KeyedAppend(reviews[c].threads, reviews'[c].threads, file, range,
                             commit_of[c])]_vars

(***************************************************************************)
(*                      PROPERTIES OF THE SESSION MERGES                   *)
(***************************************************************************)
\* the step just taken answered a session merge (either entry point) for name
SessionMergeAnswered(name) ==
    last'.op \in {"session_merge", "merge_session"} /\ last'.id = <<name>>

\* change c has an Open thread, or a commit not recorded as a revision
Unsettled(c) == ~Recorded(c) \/ ~NoOpenThread(c)

\* C3: a session merge (there is no way to ask for force) is refused when a
\* change of the session has an Open thread or a pending revision: the session
\* stays Active and no bookmark is moved or deleted.
C3_SessionGate ==
    [][\A name \in GateSessions :
          /\ SessionMergeAnswered(name)
          /\ name \in DOMAIN sessions
          /\ \E i \in 1..Len(sessions[name].changes) : Unsettled(sessions[name].changes[i])
          => /\ last'.success = "false"
             /\ sessions'[name].status = sessions[name].status
             /\ bookmarks' = bookmarks]_vars

(***************************************************************************)
(*                    REVISIONS OF A REVIEW (C11, C12)                     *)
(***************************************************************************)
\* C11: after any sequence of get_or_create, add_comment, record_revision,
\* reply_to_thread, resolve_thread and reopen_thread, the persisted revisions
\* of every review are numbered densely from 1: the i-th revision has number i
C11_DenseRevisionNumbers ==
    \A c \in DOMAIN reviews :
        \A i \in 1..Len(reviews[c].revisions) : reviews[c].revisions[i].number = i

\* a review whose first revision a comment created and whose second the MCP
\* tool recorded
C11_Witness ==
    \E c \in DOMAIN reviews :
        /\ Len(reviews[c].revisions) = 2
        /\ reviews[c].revisions[1].description = None
        /\ reviews[c].revisions[2].description = Some("summary")
        /\ reviews[c].threads # <<>>


\* C12: after any mutation of a review (get_or_create with its migration of
\* older documents, add_comment, record_revision, reply_to_thread,
\* resolve_thread, reopen_thread), if the persisted revisions are not empty and
\* working_commit_id is set, working_commit_id is the commit_id of the last
\* persisted revision
C12_WorkingCommitIsLastRevision ==
    \A c \in DOMAIN reviews :
        LET review == reviews[c]
        IN  (review.revisions # <<>> /\ review.working_commit_id # None)
                => review.working_commit_id
                       = Some(review.revisions[Len(review.revisions)].commit_id)

(***************************************************************************)
(*                        THREADS OF A REVIEW                              *)
(***************************************************************************)
\* C13: the thread ids add_comment generates are pairwise distinct within a
\* review, in every state any sequence of add_comment calls reaches
C13_ThreadIdsDistinct ==
    \A c \in DOMAIN reviews :
        \A i, j \in 1..Len(reviews[c].threads) :
            reviews[c].threads[i].id = reviews[c].threads[j].id => i = j

(***************************************************************************)
(*                        SESSION STATUS (C14, C15)                        *)
(***************************************************************************)
\* the step is a merge of session name, by the command or by the endpoint
MergeStepOf(name) ==
    /\ last'.op \in {"session_merge", "merge_session"}
    /\ last'.id = <<name>>

\* C14: the status of a session is monotonic: once the persisted status is
\* Merged it is never Active again, and a merge of a Merged session fails
\* without moving a bookmark or changing a session document, whatever the
\* interleaving of push, pull and merge on that session's document
C14_MergedIsFinal ==
    [][\A name \in DOMAIN sessions :
          sessions[name].status = "Merged"
              => /\ sessions'[name].status = "Merged"
                 /\ MergeStepOf(name)
                        => /\ last'.success = "false"
                           /\ UNCHANGED <<bookmarks, sessions>>]_vars


\* C15: after any successful session merge, by the command or by POST
\* /sessions/{name}/merge, the merged session has status Merged and no Active
\* session has the merged session's bookmark as its base_bookmark: every such
\* child now has the merged session's base_bookmark
C15_MergeReparents ==
    [][\A name \in DOMAIN sessions :
          (MergeStepOf(name) /\ last'.success = "true")
              => /\ sessions'[name].status = "Merged"
                 /\ \A child \in DOMAIN sessions :
                        LET before == sessions[child]
                            after == sessions'[child]
                        IN  /\ after.status = "Active"
                                => after.base_bookmark # sessions[name].bookmark
                            /\ (before.status = "Active"
                                 /\ before.base_bookmark = sessions[name].bookmark)
                                => after.base_bookmark = sessions[name].base_bookmark]_vars


\* review `after` is review `before` with the status of thread i set, and
\* nothing else changed
OnlyStatusSet(before, after, i, status) ==
    /\ Len(after.threads) = Len(before.threads)
    /\ after.threads[i] = [before.threads[i] EXCEPT !.status = status]
    /\ \A j \in 1..Len(before.threads) : j # i => after.threads[j] = before.threads[j]
    /\ after.revisions = before.revisions
    /\ after.working_commit_id = before.working_commit_id
    /\ after.base = before.base

\* the request sent again for the change and the thread the answer names: the
\* lookup done in the state the first request left, the status set once more,
\* gives the document that is there
AskedAgain(c, thread_id, status) ==
    /\ get_by_prefix(c)' = Some(c)
    /\ ~get_by_prefix_ambiguous(c)'
    /\ \E i \in 1..Len(reviews'[c].threads) :
          /\ i = find_thread_mut(reviews'[c].threads, thread_id)
          /\ reviews'[c] = IF status = "Resolved"
                           THEN resolve_thread(reviews'[c], i)
                           ELSE reopen_thread(reviews'[c], i)

\* what a successful request that sets a status leaves, the answer naming
\* change c and thread thread_id
StatusSetOnce(c, thread_id, status) ==
    /\ DOMAIN reviews' = DOMAIN reviews
    /\ \A other \in DOMAIN reviews : other # c => reviews'[other] = reviews[other]
    /\ \E i \in 1..Len(reviews[c].threads) :
          /\ reviews[c].threads[i].id = thread_id
          /\ OnlyStatusSet(reviews[c], reviews'[c], i, status)
    /\ AskedAgain(c, thread_id, status)

\* the step answered a request op about thread thread_id of change c
ThreadAnswered(op, c, thread_id) ==
    /\ last'.op = op
    /\ last'.status = OK
    /\ last'.id = c
    /\ last'.thread_id = Some(thread_id)

\* C16: resolve_thread and reopen_thread are idempotent: applied twice to a
\* thread they leave the persisted document they leave applied once, with the
\* thread's status Resolved (Open); neither changes a comment, a revision,
\* working_commit_id or another thread
C16_StatusIdempotent ==
    [][(last'.op \in {"resolve", "reopen"} /\ last'.status = OK)
          => \A c \in ChangeIds, thread_id \in ThreadIds :
                /\ ThreadAnswered("resolve", c, thread_id)
                      => StatusSetOnce(c, thread_id, "Resolved")
                /\ ThreadAnswered("reopen", c, thread_id)
                      => StatusSetOnce(c, thread_id, "Open")]_vars

\* a thread with comments that is Resolved has just been resolved again, and
\* beside it there is another thread
C16_Witness ==
    /\ last.op = "resolve"
    /\ last.status = OK
    /\ \E i \in 1..Len(reviews[last.id].threads) :
          LET t == reviews[last.id].threads[i]
          IN  /\ t.id = Unwrap(last.thread_id)
              /\ t.status = "Resolved"
              /\ Len(t.comments) = 2
    /\ Len(reviews[last.id].threads) = 2


\* C17: get_or_create is idempotent in state: a call on a review that exists
\* with working_commit_id set, with the same or another base or commit_id,
\* leaves the persisted document as it is; the first call on an absent review
\* creates a document with no threads, no revisions and working_commit_id =
\* commit_id
C17_GetOrCreateIdempotent ==
    [][\A c \in ChangeIds :
          (last'.op = "create_review" /\ last'.id = c)
              => /\ (c \in DOMAIN reviews /\ reviews[c].working_commit_id # None)
                        => reviews' = reviews
                 /\ c \notin DOMAIN reviews
                        => /\ DOMAIN reviews' = DOMAIN reviews \cup {c}
                           /\ \A other \in DOMAIN reviews : reviews'[other] = reviews[other]
                           /\ reviews'[c].threads = <<>>
                           /\ reviews'[c].revisions = <<>>
                           /\ reviews'[c].working_commit_id = Some(commit_of[c])]_vars

\* create_review has just been answered for a review that has a thread and a
\* revision, was created on another base, and whose change has since been
\* amended
C17_Witness ==
    /\ last.op = "create_review"
    /\ last.id \in DOMAIN reviews
    /\ reviews[last.id].threads # <<>>
    /\ reviews[last.id].revisions # <<>>
    /\ reviews[last.id].base = "main"
    /\ reviews[last.id].working_commit_id \notin {None, Some(commit_of[last.id])}

(***************************************************************************)
(*                          PUSHED CLEAN (C18)                             *)
(***************************************************************************)
\* the pairs the most recent PushEvent of a session captured
Captured(name) ==
    HashSet(sessions[name].pushes[Len(sessions[name].pushes)].changes)

\* the clone's live stack equals what the most recent push captured
StackAsPushed(name) ==
    /\ sessions[name].pushes # <<>>
    /\ Captured(name) = {<<clones[name][i], commit_of[clones[name][i]]>> :
                             i \in 1..Len(clones[name])}

\* the step is work in the clone of session name: an amend of its working
\* copy change, or a new change
CloneActivity(name) ==
    \/ last'.op = "amend" /\ last'.id = WorkingChange(name)
    \/ last'.op = "new_change" /\ last'.id = <<name>>

GrownFrom(before, after) ==
    /\ Len(after) >= Len(before)
    /\ SubSeq(after, 1, Len(before)) = before

\* thread `after` is thread `before` but for its status and its comments,
\* which have only grown
SameAnchor(before, after) ==
    /\ [after EXCEPT !.status = before.status, !.comments = before.comments] = before
    /\ GrownFrom(before.comments, after.comments)

MatchingReviews(change_prefix) ==
    {c \in DOMAIN reviews : starts_with(c, change_prefix)}
MatchingThreads(c, thread_prefix) ==
    {i \in 1..Len(reviews[c].threads) : starts_with(reviews[c].threads[i].id, thread_prefix)}

\* the store after the step is the store before with one comment appended to
\* thread i of review c
OneCommentAppended(c, i) ==
    /\ DOMAIN reviews' = DOMAIN reviews
    /\ \A other \in DOMAIN reviews : other # c => reviews'[other] = reviews[other]
    /\ [reviews'[c] EXCEPT !.threads = reviews[c].threads] = reviews[c]
    /\ Len(reviews'[c].threads) = Len(reviews[c].threads)
    /\ \A j \in 1..Len(reviews[c].threads) :
          j # i => reviews'[c].threads[j] = reviews[c].threads[j]
    /\ [reviews'[c].threads[i] EXCEPT !.comments = reviews[c].threads[i].comments]
           = reviews[c].threads[i]
    /\ Len(reviews'[c].threads[i].comments) = Len(reviews[c].threads[i].comments) + 1
    /\ GrownFrom(reviews[c].threads[i].comments, reviews'[c].threads[i].comments)

\* what a reply sent with the two prefixes has to do
ReplyAsClaimed(change_prefix, thread_prefix) ==
    IF Cardinality(MatchingReviews(change_prefix)) # 1
    THEN last'.status = INTERNAL_SERVER_ERROR /\ reviews' = reviews
    ELSE LET c == CHOOSE c \in MatchingReviews(change_prefix) : TRUE
         IN  IF Cardinality(MatchingThreads(c, thread_prefix)) # 1
             THEN last'.status = INTERNAL_SERVER_ERROR /\ reviews' = reviews
             ELSE LET i == CHOOSE i \in MatchingThreads(c, thread_prefix) : TRUE
                  IN  last'.status = OK /\ OneCommentAppended(c, i)

\* C20: reply_to_thread resolves both ids by prefix and appends exactly one
\* comment to exactly one thread; it returns an error and leaves every
\* persisted review as it is when no review matches the change prefix, when
\* two or more reviews match it, when no thread matches the thread prefix, and
\* when two or more threads match it
C20_ReplyByPrefix ==
    [][last'.op = "reply"
          => \A cp \in ChangePrefixes, tp \in ThreadPrefixes, author \in Author :
                Reply(cp, tp, author) => ReplyAsClaimed(cp, tp)]_vars

(***************************************************************************)
(*                     THE HTTP BOUNDARY (C21, C22)                        *)
(***************************************************************************)
\* the error a thread request sent with the two prefixes runs into: the
\* change or the thread is not there, or a prefix names more than one
ThreadErrorKind(change_prefix, thread_prefix) ==
    IF MatchingReviews(change_prefix) = {} THEN "NotFound"
    ELSE IF change_prefix \notin DOMAIN reviews
            /\ Cardinality(MatchingReviews(change_prefix)) > 1 THEN "Ambiguous"
    ELSE LET c == IF change_prefix \in DOMAIN reviews THEN change_prefix
                  ELSE CHOOSE c \in MatchingReviews(change_prefix) : TRUE
             exact == {i \in 1..Len(reviews[c].threads) :
                          reviews[c].threads[i].id = thread_prefix}
         IN  IF exact # {} THEN "None"
             ELSE IF MatchingThreads(c, thread_prefix) = {} THEN "NotFound"
             ELSE IF Cardinality(MatchingThreads(c, thread_prefix)) > 1 THEN "Ambiguous"
             ELSE "None"

\* the status code of an error kind
StatusOfKind(kind) ==
    CASE kind = "NotFound" -> NOT_FOUND
      [] kind = "PreconditionFailed" -> BAD_REQUEST
      [] kind = "Ambiguous" -> BAD_REQUEST
      [] OTHER -> OK

\* the error a merge of change c runs into
MergeErrorKind(c, force) ==
    CASE merge_gate(c, force) = "move" -> "None"
      [] merge_gate(c, force) = "no_change" -> "NotFound"
      [] OTHER -> "PreconditionFailed"

\* the error a merge of session name by the endpoint runs into
MergeSessionErrorKind(name) ==
    IF session_get(name) = None THEN "NotFound"
    ELSE IF sessions[name].status # "Active" THEN "PreconditionFailed"
    ELSE IF get_bookmark(sessions[name].bookmark) = None THEN "PreconditionFailed"
    ELSE "None"

\* C21: every failing request surfaces its error kind as a status code:
\* NotFound (unknown change, review, thread or session) as 404,
\* PreconditionFailed (any refusal of the merge gate, already-at-trunk and
\* session-not-active included) and an ambiguous prefix as 400
C21_ErrorStatus ==
    [][/\ last'.op \in {"reply", "resolve", "reopen"}
          => \A cp \in ChangePrefixes, tp \in ThreadPrefixes :
                (Resolve(cp, tp) \/ Reopen(cp, tp)
                 \/ \E author \in Author : Reply(cp, tp, author))
                    => last'.status = StatusOfKind(ThreadErrorKind(cp, tp))
       /\ last'.op = "add_comment"
          => last'.status = IF last'.id \in DOMAIN reviews THEN OK ELSE NOT_FOUND
       /\ last'.op = "merge_change"
          => last'.status = StatusOfKind(MergeErrorKind(last'.id, last'.force))
       /\ last'.op = "merge_session"
          => \A name \in SessionNames :
                last'.id = <<name>>
                    => last'.status = StatusOfKind(MergeSessionErrorKind(name))]_vars


\* C22: both merge endpoints return a structured {success, message} body on
\* every outcome, every failure path included (bookmark lookup, change
\* lookup, bookmark move, session load or save): no path returns a bare
\* string body
C22_StructuredMergeBody ==
    [][last'.op \in {"merge_change", "merge_session"}
          => last'.success \in {"true", "false"}]_vars

(***************************************************************************)
(*                     SAVES AND CONCURRENCY (C23, C24)                    *)
(***************************************************************************)
\* C23: review and session documents are persisted by atomic replace: at no
\* point during a save can a concurrent reader, or a crash, find a missing,
\* empty or partially written document; what is in the file is the complete
\* content from before the save or the complete content from after it
C23_AtomicSave ==
    \A name \in DOMAIN sessions : sessions[name] # EmptyFile

\* the comment request r sent is in the thread it replied to
Reflected(r) ==
    LET h == handling[r]
        comments == reviews[h.c].threads[h.i].comments
    IN  \E k \in 1..Len(comments) : comments[k].text = r

\* C24: mutating requests on one change's review are serialized by the
\* server: under any interleaving of concurrent requests the persisted
\* document reflects every request that returned success (no lost update)
C24_NoLostUpdate ==
    \A r \in DOMAIN handling : handling[r].saved => Reflected(r)

(***************************************************************************)
(*                     THE DIFF AROUND A THREAD (C25)                      *)
(***************************************************************************)
Extracted == last.op = "extract_nearby_hunks"

\* the new-file position of line i of the diff text, a context or added
\* line: the start of its hunk's new range plus the context and added lines
\* of the hunk before it
NewFilePosition(i) ==
    LET header == Max({j \in 1..i : hunks[j].prefix = "@@"})
    IN  hunks[header].body[1]
        + Cardinality({j \in header + 1..i - 1 : hunks[j].prefix \in PositionedPrefixes})

InWindow(n) ==
    /\ n >= saturating_sub(last.line_start, last.padding)
    /\ n <= last.line_end + last.padding

Emitted(i) == \E k \in 1..Len(last.nearby) : last.nearby[k] = hunks[i]

\* C25: every Context or Add line in the output of extract_nearby_hunks has
\* its new-file position within [line_start - padding, line_end + padding]
\* (the lower bound saturating at 0), and every Context or Add line of the
\* diff whose new-file position is within that window is in the output
C25_WindowLines ==
    Extracted =>
        \A i \in 1..Len(hunks) :
            hunks[i].prefix \in PositionedPrefixes =>
                (Emitted(i) <=> InWindow(NewFilePosition(i)))

(***************************************************************************)
(*                        ONE TOPIC PER CHANGE (C26)                       *)
(***************************************************************************)
TopicsOf(change_id) == {t \in DOMAIN topics : change_id \in topics[t].changes}

\* an add_changes request naming a change that another topic holds
AddOfTaken ==
    /\ last'.op = "add_changes"
    /\ \E i \in 1..Len(last'.change_ids) : TopicsOf(last'.change_ids[i]) \ {last'.id} # {}

\* C26: after any sequence of create, add_changes and remove_changes no
\* change id is in more than one topic's change set; add_changes with a
\* change that is already in a different topic returns an error and leaves
\* every topic document unchanged
C26_SingleTopicPerChange ==
    /\ [](\A c \in Changes : Cardinality(TopicsOf(c)) <= 1)
    /\ [][AddOfTaken => last'.success = "false" /\ topics' = topics]_vars

\* a change is in a topic and add_changes for the other topic was refused
C26_Witness ==
    /\ last.op = "add_changes"
    /\ last.success = "false"
    /\ last.id \in DOMAIN topics
    /\ \E i \in 1..Len(last.change_ids) : TopicsOf(last.change_ids[i]) \ {last.id} # {}

(***************************************************************************)
(*                 REVISIONS WRITTEN AND SHOWN (C27 - C29)                 *)
(***************************************************************************)
LastOf(seq) == seq[Len(seq)]

\* the revisions grew by one revision, not pending and without description
OneRevisionAppended(before, after) ==
    /\ Len(after.revisions) = Len(before.revisions) + 1
    /\ SubSeq(after.revisions, 1, Len(before.revisions)) = before.revisions
    /\ ~LastOf(after.revisions).is_pending
    /\ LastOf(after.revisions).description = None

\* what add_comment(c, .., commit_id) has to make of the document `before`
CommentRecorded(before, after, commit_id) ==
    /\ after.revisions # <<>>
    /\ LastOf(after.revisions).commit_id = commit_id
    /\ after.working_commit_id = Some(commit_id)
    /\ IF before.revisions = <<>> \/ LastOf(before.revisions).commit_id # commit_id
       THEN OneRevisionAppended(before, after)
       ELSE after.revisions = before.revisions
    /\ Len(after.threads) = Len(before.threads) + 1 =>
           LastOf(after.threads).created_at_revision
               = Some(LastOf(after.revisions).number)

\* C27: after add_comment(change, .., commit_id) succeeds, the last persisted
\* revision's commit_id and working_commit_id are commit_id; a new revision,
\* not pending and without description, is appended iff there was no
\* revision or the last one's commit_id differed; a newly created thread's
\* created_at_revision is the number of that last revision
C27_AddCommentRevision ==
    [][\A c \in Reviewed :
          last'.op = "add_comment" /\ last'.status = OK /\ last'.id = c
              => CommentRecorded(reviews[c], reviews'[c], commit_of[c])]_vars

\* add_comment appended the second revision and created a thread at it
C27_Witness ==
    /\ last.op = "add_comment"
    /\ last.status = OK
    /\ Len(reviews[last.id].revisions) = 2
    /\ LastOf(reviews[last.id].threads).created_at_revision = Some(2)
    /\ LastOf(reviews[last.id].threads).id = Unwrap(last.thread_id)

\* what record_revision(c, commit_id, ..) has to make of the document `before`
RevisionRecorded(before, after, commit_id) ==
    /\ Len(after.revisions) = Len(before.revisions) + 1
    /\ SubSeq(after.revisions, 1, Len(before.revisions)) = before.revisions
    /\ LastOf(after.revisions).number = Len(before.revisions) + 1
    /\ LastOf(after.revisions).commit_id = commit_id
    /\ ~LastOf(after.revisions).is_pending
    /\ after.working_commit_id = Some(commit_id)

\* C28: record_revision on an existing review appends exactly one revision,
\* numbered previous length + 1 and not pending, and sets working_commit_id
\* to commit_id, also when commit_id is the last revision's (the store does
\* not deduplicate); when no review exists it returns an error and creates
\* no document
C28_RecordRevisionAppends ==
    [][\A c \in ChangeIds :
          last'.op = "store_record_revision" /\ last'.id = c
              => IF c \in DOMAIN reviews
                 THEN /\ last'.success = "true"
                      /\ RevisionRecorded(reviews[c], reviews'[c], last'.commit_id)
                 ELSE /\ last'.success = "false"
                      /\ reviews' = reviews]_vars

\* record_revision was called with the commit_id of the last revision
C28_Witness ==
    /\ last.op = "store_record_revision"
    /\ last.success = "true"
    /\ Len(reviews[last.id].revisions) = 2
    /\ reviews[last.id].revisions[1].commit_id = reviews[last.id].revisions[2].commit_id

\* the synthetic revision enrichment appends to the persisted revisions
Synthetic(persisted, current_commit_id) ==
    Revision(IF persisted = <<>> THEN 1 ELSE LastOf(persisted).number + 1,
             current_commit_id, None, TRUE)

\* C29: the read path appends a synthetic revision iff the current commit_id
\* differs from the last persisted revision's commit_id or no revision is
\* persisted; the synthetic revision is pending, has no description, is at
\* the current commit_id and is numbered last.number + 1 (1 when there is
\* none); when the two are equal the returned revisions are the persisted
C29_Enrichment ==
    last.op = "get_review" /\ last.review # None =>
        LET persisted == reviews[last.id].revisions
            current_commit_id == commit_of[last.id]
            returned == Unwrap(last.review).revisions
        IN  IF persisted = <<>> \/ LastOf(persisted).commit_id # current_commit_id
            THEN returned = Append(persisted, Synthetic(persisted, current_commit_id))
            ELSE returned = persisted

\* get_review appended the synthetic revision to two persisted ones
C29_Witness ==
    /\ last.op = "get_review" /\ last.review # None
    /\ Len(reviews[last.id].revisions) = 2
    /\ Len(Unwrap(last.review).revisions) = 3
    /\ LastOf(Unwrap(last.review).revisions).number = 3

(***************************************************************************)
(*                  A HUNK OF DELETED LINES ONLY (C30)                     *)
(***************************************************************************)
OnlyDeletes(h) == \A j \in 1..Len(h.lines) : h.lines[j] = "Delete"

\* C30: when the line handed to map_line is a Delete entry of a hunk that has
\* no Context and no Add entry, map_line returns was_deleted = true and
\* new_line = max(new_start, 1)
C30_AllDeletedHunk ==
    Mapped =>
        \A k \in HunkIdx : \A i \in 1..Len(hunks[k].lines) :
            IsEntryOf(hunks[k], i, old_line, "Delete") /\ OnlyDeletes(hunks[k])
                => mapping = LineMapping(IF hunks[k].new_start > 1
                                         THEN hunks[k].new_start ELSE 1, TRUE)

\* the second of three deleted lines was mapped, in a hunk whose new range
\* starts at 0
C30_Witness ==
    /\ Mapped
    /\ \E k \in HunkIdx :
          /\ OnlyDeletes(hunks[k])
          /\ Len(hunks[k].lines) >= 2
          /\ hunks[k].new_start = 0
          /\ IsEntryOf(hunks[k], 2, old_line, "Delete")

(***************************************************************************)
(*                    THE THREAD BATCH (C31, C32)                          *)
(***************************************************************************)
BatchReturned == batch # NoBatch /\ batch.groups = {}
BatchIdx == 1..Len(batch.threads)

\* the diffs asked for the group of thread t
DiffsFor(t) ==
    {k \in 1..Len(batch.diffs) :
        /\ batch.diffs[k].file = t.file
        /\ Some(batch.diffs[k].from_commit) = t.created_at_commit}
AnswerFor(t) == batch.diffs[CHOOSE k \in DiffsFor(t) : TRUE].answer

Stored(t, is_deleted) ==
    [line_start |-> t.line_start, line_end |-> t.line_end, is_deleted |-> is_deleted]
LinesMapped(t, hs) ==
    [line_start |-> map_line(t.line_start, hs).new_line,
     line_end |-> map_line(t.line_end, hs).new_line,
     is_deleted |-> map_line(t.line_start, hs).was_deleted
                    \/ map_line(t.line_end, hs).was_deleted]
Unmapped(t) ==
    t.created_at_commit = None \/ t.created_at_commit = Some(batch.target_commit)

\* the position of thread t as stated without the file-deletion case
PositionAsStated(t) ==
    IF Unmapped(t) THEN Stored(t, FALSE)
    ELSE IF ~AnswerFor(t).ok THEN Stored(t, TRUE)
    ELSE IF AnswerFor(t).blank THEN Stored(t, FALSE)
    ELSE LinesMapped(t, AnswerFor(t).hunks)

\* the same with the case of a text that has no hunks and names a deleted file
PositionWithDeletedFile(t) ==
    IF Unmapped(t) THEN Stored(t, FALSE)
    ELSE IF ~AnswerFor(t).ok THEN Stored(t, TRUE)
    ELSE IF AnswerFor(t).blank THEN Stored(t, FALSE)
    ELSE IF AnswerFor(t).hunks = <<>> /\ AnswerFor(t).deleted_file THEN Stored(t, TRUE)
    ELSE LinesMapped(t, AnswerFor(t).hunks)

EveryThreadPlaced ==
    DOMAIN batch.results = {batch.threads[i].id : i \in BatchIdx}

\* C31 as stated: map_all_threads returns exactly one position for every
\* thread: the stored one, not deleted, when created_at_commit is unset or
\* the target or the diff is empty; the stored one, deleted, when the diff
\* command fails; otherwise the map_line results with is_deleted =
\* start.was_deleted or end.was_deleted
C31_AsStated ==
    BatchReturned =>
        /\ EveryThreadPlaced
        /\ \A i \in BatchIdx :
              batch.results[batch.threads[i].id] = PositionAsStated(batch.threads[i])

\* C31: the same, and the stored position, deleted, when the diff text is not
\* empty, has no hunk for the file and contains the file-deletion marker
C31_EveryThreadMapped ==
    BatchReturned =>
        /\ EveryThreadPlaced
        /\ \A i \in BatchIdx :
              batch.results[batch.threads[i].id]
                  = PositionWithDeletedFile(batch.threads[i])

\* two threads were mapped: one through the text of a deleted file, one
\* through a hunk that deleted its end line and kept its start line
C31_Witness ==
    /\ BatchReturned
    /\ Len(batch.threads) = 2
    /\ ~Unmapped(batch.threads[1]) /\ ~Unmapped(batch.threads[2])
    /\ LET a == AnswerFor(batch.threads[1])
       IN  a.ok /\ ~a.blank /\ a.hunks = <<>> /\ a.deleted_file
    /\ LET t == batch.threads[2]
           hs == AnswerFor(t).hunks
       IN  /\ AnswerFor(t).ok /\ ~AnswerFor(t).blank /\ hs # <<>>
           /\ ~map_line(t.line_start, hs).was_deleted
           /\ map_line(t.line_end, hs).was_deleted

DiffKey(k) == <<batch.diffs[k].file, batch.diffs[k].from_commit>>

\* C32: map_all_threads issues at most one diff per distinct (file,
\* created_at_commit) pair among the threads that need mapping, and no diff
\* for threads whose created_at_commit is unset or equals target_commit
C32_OneDiffPerGroup ==
    batch # NoBatch =>
        /\ \A k1, k2 \in 1..Len(batch.diffs) : DiffKey(k1) = DiffKey(k2) => k1 = k2
        /\ \A k \in 1..Len(batch.diffs) :
              \E i \in BatchIdx :
                  /\ ~Unmapped(batch.threads[i])
                  /\ batch.threads[i].file = DiffKey(k)[1]
                  /\ batch.threads[i].created_at_commit = Some(DiffKey(k)[2])

\* two threads of one file and commit were mapped with one diff
C32_Witness ==
    /\ BatchReturned
    /\ Len(batch.threads) = 2
    /\ ~Unmapped(batch.threads[1])
    /\ batch.threads[1].file = batch.threads[2].file
    /\ batch.threads[1].created_at_commit = batch.threads[2].created_at_commit
    /\ Len(batch.diffs) = 1

(***************************************************************************)
(*              WHAT A SESSION MERGE LEAVES ALONE (C33)                    *)
(***************************************************************************)
\* C33: re-parenting on session merge touches only direct Active children: a
\* session whose base_bookmark differs from the merged session's bookmark and
\* any session with status Merged keep their base_bookmark; no field other
\* than base_bookmark of a re-parented child changes
C33_ReparentFrame ==
    [][\A name \in SessionNames :
          SessionMergeAnswered(name) /\ name \in DOMAIN sessions
          => \A n \in DOMAIN sessions \ {name} :
                /\ sessions'[n] = [sessions[n] EXCEPT
                                      !.base_bookmark = sessions'[n].base_bookmark]
                /\ ( \/ sessions[n].base_bookmark # sessions[name].bookmark
                     \/ sessions[n].status = "Merged" )
                   => sessions'[n].base_bookmark = sessions[n].base_bookmark]_vars

\* s1 was merged by session_merge while s2, merged before and based on the
\* bookmark of s1, kept its base_bookmark
C33_Witness ==
    /\ last.op = "session_merge" /\ last.success = "true" /\ last.id = <<"s1">>
    /\ "s2" \in DOMAIN sessions
    /\ sessions["s2"].status = "Merged"
    /\ sessions["s2"].base_bookmark = SessionBookmark("s1")

(***************************************************************************)
(*                 LOOKUP OF A REVIEW BY PREFIX (C34)                      *)
(***************************************************************************)
\* C34: get_by_prefix returns None when no stored review document's filename
\* starts with the prefix, the single matching review when exactly one does,
\* and an ambiguity error when two or more do
C34_PrefixLookup ==
    last.op = "get_by_prefix"
    => LET matching == prefix_matches(last.prefix)
       IN  /\ Cardinality(matching) = 0 => last.outcome = "none"
           /\ Cardinality(matching) = 1
              => last.outcome = "review" /\ last.change_id \in {Some(c) : c \in matching}
           /\ Cardinality(matching) >= 2 => last.outcome = "ambiguous"

\* the same once the reviews directory exists
C34_InitialisedStore == store_dir => C34_PrefixLookup

(***************************************************************************)
(*                     WHAT A PUSH RECORDS (C35)                           *)
(***************************************************************************)
\* the step ran jj git push for session name
GitPushRan(name) ==
    /\ last'.id = <<name>>
    /\ \/ last'.op = "push_git"
       \/ last'.op = "push" /\ last'.success = "false"

\* C35: push passes --allow-new exactly when the session document has no
\* prior PushEvent; a successful push appends exactly one PushEvent (summary,
\* tip change_id, commit_id) and replaces the cached changes list; a push
\* whose jj git push fails appends no PushEvent and leaves the session
\* document unchanged
C35_PushRecords ==
    [][\A name \in PushSessions :
          /\ GitPushRan(name)
             => last'.allow_new = (sessions[name].pushes = <<>>)
          /\ last'.id = <<name>> /\ last'.op = "push" /\ last'.success = "true"
             => /\ Len(sessions'[name].pushes) = Len(sessions[name].pushes) + 1
                /\ SubSeq(sessions'[name].pushes, 1, Len(sessions[name].pushes))
                      = sessions[name].pushes
                /\ LET event == sessions'[name].pushes[Len(sessions'[name].pushes)]
                   IN  /\ event.summary = pushing[name].message
                       /\ event.change_id = WorkingChange(name)
                       /\ event.commit_id = commit_of[WorkingChange(name)]
                /\ sessions'[name].changes = clones[name]
          /\ last'.id = <<name>> /\ last'.op = "push" /\ last'.success = "false"
             => sessions' = sessions]_vars

\* a second push of s1 went through, with another message than the first and
\* after its author had made a new change
C35_Witness ==
    /\ last.op = "push" /\ last.success = "true" /\ last.id = <<"s1">>
    /\ Len(sessions["s1"].pushes) = 2
    /\ sessions["s1"].pushes[1].summary # sessions["s1"].pushes[2].summary
    /\ sessions["s1"].pushes[1].change_id # sessions["s1"].pushes[2].change_id

\* jj git push of s1 was rejected
C35_RejectedWitness ==
    last.op = "push" /\ last.success = "false" /\ last.id = <<"s1">>

(***************************************************************************)
(*            DELETED LINES NEXT TO THE WINDOW (C36)                       *)
(***************************************************************************)
\* line i of the diff text is a deleted line with an emitted context or added
\* line of its hunk right before or right after it
BesideEmitted(i) ==
    \E j \in {i - 1, i + 1} \cap (1..Len(hunks)) :
        hunks[j].prefix \in PositionedPrefixes /\ Emitted(j)

\* C36: every Delete line directly adjacent (immediately before or after,
\* within the same hunk) to an emitted Context or Add line is emitted by
\* extract_nearby_hunks, and no other Delete line is emitted
C36_AdjacentDeletes ==
    Extracted =>
        \A i \in 1..Len(hunks) :
            hunks[i].prefix = "-" => (Emitted(i) <=> BesideEmitted(i))

\* what the second pass does: a deleted line is emitted exactly when the diff
\* line before it was emitted
C36_DeletesFollowEmitted ==
    Extracted =>
        \A i \in 1..Len(hunks) :
            hunks[i].prefix = "-"
            => (Emitted(i) <=> i > 1 /\ hunks[i - 1].prefix # "@@" /\ Emitted(i - 1))

(***************************************************************************)
(*               NOTHING SELECTED, NOTHING RETURNED (C37)                  *)
(***************************************************************************)
\* no context, added or deleted line of the diff text is in the output
NoLineSelected ==
    \A k \in 1..Len(last.nearby) : last.nearby[k].prefix = "@@"

\* C37: extract_nearby_hunks returns the empty string whenever no Context,
\* Add or Delete line is selected; no `@@` header is emitted on its own
C37_EmptyWhenNothingSelected ==
    Extracted /\ NoLineSelected => last.nearby = <<>>

(***************************************************************************)
(*                 THE ORDER OF A SESSION MERGE (C38)                      *)
(***************************************************************************)
\* C38: by either entry point a session document is marked Merged only once
\* the bookmark named by its base_bookmark has been moved to the session tip:
\* after a successful merge that bookmark points at the former session tip;
\* when the session is not Active or its bookmark is absent, the session
\* document stays as it was
C38_MergeOrdering ==
    [][\A name \in SessionNames :
          SessionMergeAnswered(name) /\ name \in DOMAIN sessions
          => IF last'.success = "true"
             THEN /\ sessions'[name].status = "Merged"
                  /\ sessions[name].base_bookmark \in DOMAIN bookmarks'
                  /\ bookmarks'[sessions[name].base_bookmark]
                        = bookmarks[sessions[name].bookmark]
             ELSE sessions'[name] = sessions[name]]_vars

\* the same of the command line entry point alone
C38_SessionMergeOrdering ==
    [][\A name \in SessionNames :
          last'.op = "session_merge" /\ last'.id = <<name>> /\ name \in DOMAIN sessions
          => IF last'.success = "true"
             THEN /\ sessions'[name].status = "Merged"
                  /\ sessions[name].base_bookmark \in DOMAIN bookmarks'
                  /\ bookmarks'[sessions[name].base_bookmark]
                        = bookmarks[sessions[name].bookmark]
             ELSE sessions'[name] = sessions[name]]_vars

(***************************************************************************)
(*              NO REVISION RECORDED TWICE IN A ROW (C39)                  *)
(***************************************************************************)
\* the last persisted revision of change c is at the commit c is at
AtLastRevision(c) ==
    /\ c \in DOMAIN reviews
    /\ reviews[c].revisions # <<>>
    /\ reviews[c].revisions[Len(reviews[c].revisions)].commit_id = commit_of[c]

\* C39: with revisions recorded through add_comment and the MCP
\* record_revision tool only, no two consecutive persisted revisions of a
\* review have the same commit_id; the MCP tool refuses to record when the
\* change's current commit_id equals the last revision's commit_id and leaves
\* the review unchanged
C39_NoRepeatedRevision ==
    /\ [](\A c \in DOMAIN reviews :
             \A i \in 1..Len(reviews[c].revisions) - 1 :
                 reviews[c].revisions[i].commit_id
                    # reviews[c].revisions[i + 1].commit_id)
    /\ [][\A c \in Reviewed :
             last'.op = "record_revision" /\ last'.id = c /\ AtLastRevision(c)
             => last'.success = "false" /\ reviews' = reviews]_vars

\* the MCP tool has just refused to record a revision of a change with two
\* persisted revisions, the second recorded after an amend
C39_Witness ==
    /\ last.op = "record_revision" /\ last.success = "false"
    /\ last.id \in DOMAIN reviews
    /\ Len(reviews[last.id].revisions) = 2
    /\ AtLastRevision(last.id)

(***************************************************************************)
(*                  THE TODO TREE IS A FOREST (C40)                        *)
(***************************************************************************)
\* the places id is named at: positions of root_ids and of children lists
Positions(id) ==
    {<<"root_ids", i>> : i \in {j \in 1..Len(todos.root_ids) : todos.root_ids[j] = id}}
    \cup UNION {{<<x, i>> : i \in {j \in 1..Len(todos.items[x].children) :
                                      todos.items[x].children[j] = id}} :
                x \in DOMAIN todos.items}

\* the ids reached from root_ids along the children lists
FromRoots ==
    to_remove(todos, {todos.root_ids[i] : i \in 1..Len(todos.root_ids)})

\* C40: in the persisted todo tree, after any sequence of add_item, move_item
\* and delete_item calls, every id in root_ids or in an item's children refers
\* to an existing item, and every existing item is named exactly once among
\* root_ids and all children lists and is reachable from root_ids
C40_WellFormedTree ==
    /\ \A id \in TodoIds : Positions(id) # {} => id \in DOMAIN todos.items
    /\ \A id \in DOMAIN todos.items :
          Cardinality(Positions(id)) = 1 /\ id \in FromRoots

\* a step that breaks a well-formed tree made an item under an id in use (or
\* beneath itself), or moved an item beneath itself or one of its descendants
C40_BrokenOnlyBy ==
    [][C40_WellFormedTree /\ ~C40_WellFormedTree'
       => \/ /\ last'.op = "create_todo"
             /\ last'.id \in DOMAIN todos.items \/ last'.parent_id = Some(last'.id)
          \/ /\ last'.op = "move_todo"
             /\ last'.parent_id # None
             /\ Unwrap(last'.parent_id) \in to_remove(todos, {last'.id})]_vars

====
